---------------------------- MODULE Spec2Model ----------------------------
(***************************************************************************)
(* Model of the error-learning plugin: the command validator               *)
(* (hooks/command-validator.py), the error logger (hooks/error-logger.py), *)
(* the fix tracker (hooks/fix-tracker.py) and the curator                  *)
(* (hooks/error-curator.py).                                               *)
(*                                                                         *)
(* Text is modelled as a sequence of one-character strings, so that        *)
(* prefix, substring and regular-expression tests are computed, not        *)
(* assumed.  A JSON value is a tagged record [t |-> tag, v |-> value] with *)
(* tags "str", "num", "list", "obj" and "null"; a JSON object's value is a *)
(* TLA+ record whose DOMAIN is the set of keys that are present.           *)
(***************************************************************************)
EXTENDS Naturals, Integers, Sequences, FiniteSets, TLC

VARIABLES
    configFile,     \* config.json
    allowlistFile,  \* patterns/allowlist.json
    activeFile,     \* patterns/active.json
    legacyFile,     \* patterns/known-errors.json
    request,        \* stdin of the last invocation
    exitCode,       \* exit status of the last invocation
    stderr,         \* what the last validator invocation wrote to stderr
    errorsFile,     \* data/errors.jsonl: the sequence of its events
    clock,          \* the wall clock, in milliseconds
    hook,           \* the entry point that ran last
    logBefore,      \* data/errors.jsonl as the last invocation found it
    packFiles,      \* patterns/packs/<name>.json, by pack name
    curatedLog,     \* data/curated.log: the sequence of its lines
    hashSeed,       \* hash() of the curator process that ran last
    diskBefore,     \* config.json, the packs and active.json as the last
                    \* invocation found them
    tracker         \* the fix tracker that is running: what it has read
                    \* and not yet written back; and what happened to the
                    \* event log meanwhile

vars == <<configFile, allowlistFile, activeFile, legacyFile,
          request, exitCode, stderr, errorsFile, clock, hook, logBefore,
          packFiles, curatedLog, hashSeed, diskBefore, tracker>>

-----------------------------------------------------------------------------
(* Bounds of the model *)

MaxAllow == 2
MaxRules == 2
MaxLog == 3
MaxTime == 3

-----------------------------------------------------------------------------
(* Text *)

SeqsUpTo(S, n) == UNION {[1..k -> S] : k \in 0..n}

\* str.startswith
StartsWith(s, p) == Len(p) <= Len(s) /\ SubSeq(s, 1, Len(p)) = p

\* p in s, for two str
Contains(s, p) ==
    \E i \in 1..(Len(s) - Len(p) + 1) :
        \A k \in 1..Len(p) : s[i + k - 1] = p[k]

IsSpace(c) == c \in {" ", "\t", "\n"}

WordChars ==
    {"a","b","c","d","e","f","g","h","i","j","k","l","m","n","o","p","q","r",
     "s","t","u","v","w","x","y","z","0","1","2","3","4","5","6","7","8","9",
     "_","A","B","C","D","E","F","G","H","I","J","K","L","M","N","O","P","Q",
     "R","S","T","U","V","W","X","Y","Z"}

-----------------------------------------------------------------------------
(* Python's re, for the patterns of this model: literals, ".", the escapes *)
(* \s \w and escaped punctuation, "^", "$", the postfix "*", "+" and "?"   *)
(* on a one-character atom, and unquantified groups with "|".              *)

IsQuant(c) == c \in {"*", "+", "?"}

\* The index of the ")" that closes a group whose body starts at i; 0 if none.
RECURSIVE CloseParen(_, _, _)
CloseParen(re, i, depth) ==
    IF i > Len(re) THEN 0
    ELSE IF re[i] = "\\" THEN CloseParen(re, i + 2, depth)
    ELSE IF re[i] = "(" THEN CloseParen(re, i + 1, depth + 1)
    ELSE IF re[i] = ")"
         THEN IF depth = 1 THEN i ELSE CloseParen(re, i + 1, depth - 1)
    ELSE CloseParen(re, i + 1, depth)

\* The branches of re at its top level, split at "|".
RECURSIVE SplitAlt(_, _, _, _)
SplitAlt(re, i, depth, cur) ==
    IF i > Len(re) THEN <<cur>>
    ELSE IF re[i] = "\\" /\ i < Len(re)
         THEN SplitAlt(re, i + 2, depth, cur \o <<re[i], re[i + 1]>>)
    ELSE IF re[i] = "|" /\ depth = 0
         THEN <<cur>> \o SplitAlt(re, i + 1, 0, <<>>)
    ELSE IF re[i] = "("
         THEN SplitAlt(re, i + 1, depth + 1, Append(cur, re[i]))
    ELSE IF re[i] = ")"
         THEN SplitAlt(re, i + 1, depth - 1, Append(cur, re[i]))
    ELSE SplitAlt(re, i + 1, depth, Append(cur, re[i]))

Alternatives(re) ==
    LET alts == SplitAlt(re, 1, 0, <<>>) IN {alts[k] : k \in 1..Len(alts)}

\* re.error: unbalanced parenthesis, nothing to repeat, multiple repeat,
\* bad escape at the end of the pattern.
RECURSIVE RegexErrorFrom(_, _, _, _)
RegexErrorFrom(re, i, depth, canRepeat) ==
    IF i > Len(re) THEN depth # 0
    ELSE IF re[i] = "\\"
         THEN i = Len(re) \/ RegexErrorFrom(re, i + 2, depth, TRUE)
    ELSE IF re[i] = "(" THEN RegexErrorFrom(re, i + 1, depth + 1, FALSE)
    ELSE IF re[i] = ")"
         THEN depth = 0 \/ RegexErrorFrom(re, i + 1, depth - 1, TRUE)
    ELSE IF re[i] = "|" THEN RegexErrorFrom(re, i + 1, depth, FALSE)
    ELSE IF re[i] = "^" THEN RegexErrorFrom(re, i + 1, depth, FALSE)
    ELSE IF IsQuant(re[i])
         THEN ~canRepeat \/ RegexErrorFrom(re, i + 1, depth, FALSE)
    ELSE RegexErrorFrom(re, i + 1, depth, TRUE)

RegexError(re) == RegexErrorFrom(re, 1, 0, FALSE)

DigitChars == <<"0", "1", "2", "3", "4", "5", "6", "7", "8", "9">>

IsDigit(c) == \E d \in DOMAIN DigitChars : DigitChars[d] = c

DigitOf(c) == (CHOOSE d \in DOMAIN DigitChars : DigitChars[d] = c) - 1

\* MAXREPEAT of the regex engine, 2^32 - 1, as the decimal numeral it is
\* compared with.
MaxRepeatDigits == <<"4", "2", "9", "4", "9", "6", "7", "2", "9", "5">>

RECURSIVE StripZeros(_)
StripZeros(ds) ==
    IF Len(ds) > 1 /\ ds[1] = "0" THEN StripZeros(Tail(ds)) ELSE ds

RECURSIVE NumeralGeqFrom(_, _, _)
NumeralGeqFrom(a, b, i) ==
    IF i > Len(a) THEN TRUE
    ELSE IF DigitOf(a[i]) # DigitOf(b[i]) THEN DigitOf(a[i]) > DigitOf(b[i])
    ELSE NumeralGeqFrom(a, b, i + 1)

\* int(lo) >= MAXREPEAT for a run of decimal digits lo
AtLeastMaxRepeat(lo) ==
    LET a == StripZeros(lo)
    IN  IF Len(a) # Len(MaxRepeatDigits) THEN Len(a) > Len(MaxRepeatDigits)
        ELSE NumeralGeqFrom(a, MaxRepeatDigits, 1)

\* OverflowError ("the repetition number is too large"): the pattern holds
\* a repeat {lo} whose count is MAXREPEAT or more.  It is no re.error.
RECURSIVE RepeatTooLargeFrom(_, _)
RepeatTooLargeFrom(re, i) ==
    IF i > Len(re) THEN FALSE
    ELSE IF re[i] = "\\" THEN RepeatTooLargeFrom(re, i + 2)
    ELSE IF re[i] = "{"
              /\ \E j \in (i + 2)..Len(re) :
                     /\ re[j] = "}"
                     /\ \A k \in (i + 1)..(j - 1) : IsDigit(re[k])
                     /\ AtLeastMaxRepeat(SubSeq(re, i + 1, j - 1))
         THEN TRUE
    ELSE RepeatTooLargeFrom(re, i + 1)

RepeatTooLarge(re) == RepeatTooLargeFrom(re, 1)

\* Whether the atom at the head of re (one character, or a backslash and the
\* character after it) matches the character c.
AtomMatches(re, c) ==
    IF re[1] = "\\"
    THEN IF re[2] = "s" THEN IsSpace(c)
         ELSE IF re[2] = "w" THEN c \in WordChars
         ELSE c = re[2]
    ELSE IF re[1] = "." THEN c # "\n"
    ELSE c = re[1]

AtomLen(re) == IF re[1] = "\\" THEN 2 ELSE 1

\* Whether re matches a prefix of s[j..].
RECURSIVE MatchHere(_, _, _)
MatchHere(re, s, j) ==
    IF re = <<>> THEN TRUE
    ELSE IF re[1] = "("
    THEN LET c == CloseParen(re, 2, 1)
             body == SubSeq(re, 2, c - 1)
             rest == SubSeq(re, c + 1, Len(re))
         IN  \E alt \in Alternatives(body) : MatchHere(alt \o rest, s, j)
    ELSE IF re[1] = "^" THEN j = 1 /\ MatchHere(Tail(re), s, j)
    ELSE IF re[1] = "$"
    THEN /\ j = Len(s) + 1 \/ (j = Len(s) /\ s[j] = "\n")
         /\ MatchHere(Tail(re), s, j)
    ELSE LET n == AtomLen(re)
             rest == SubSeq(re, n + 1, Len(re))
             q == IF rest # <<>> /\ IsQuant(rest[1]) THEN rest[1] ELSE ""
             Run(k) == \A d \in 0..(k - 1) : AtomMatches(re, s[j + d])
             left == Len(s) - j + 1
         IN  IF q = "*"
             THEN \E k \in 0..left : Run(k) /\ MatchHere(Tail(rest), s, j + k)
             ELSE IF q = "+"
             THEN \E k \in 1..left : Run(k) /\ MatchHere(Tail(rest), s, j + k)
             ELSE IF q = "?"
             THEN \E k \in 0..(IF left >= 1 THEN 1 ELSE 0) :
                      Run(k) /\ MatchHere(Tail(rest), s, j + k)
             ELSE j <= Len(s) /\ AtomMatches(re, s[j])
                  /\ MatchHere(rest, s, j + 1)

\* bool(re.search(re, s)) for a pattern that compiles
ReSearch(re, s) ==
    \E alt \in Alternatives(re) : \E j \in 1..(Len(s) + 1) : MatchHere(alt, s, j)

-----------------------------------------------------------------------------
(* JSON values *)

Str(s)  == [t |-> "str", v |-> s]
Num(n)  == [t |-> "num", v |-> n]
List(l) == [t |-> "list", v |-> l]
Obj(r)  == [t |-> "obj", v |-> r]
Null    == [t |-> "null"]

\* dict.get(k, default) on the record of a JSON object
Get(d, k, default) == IF k \in DOMAIN d THEN d[k] ELSE default

\* Python truth value of a JSON value
Truthy(j) ==
    CASE j.t = "str"  -> j.v # <<>>
      [] j.t = "num"  -> j.v # 0
      [] j.t = "list" -> j.v # <<>>
      [] j.t = "obj"  -> DOMAIN j.v # {}
      [] OTHER        -> FALSE

\* A file: absent, not JSON, or a JSON value.
Absent  == [kind |-> "absent"]
Invalid == [kind |-> "invalid"]
File(j) == [kind |-> "json", json |-> j]

-----------------------------------------------------------------------------
(* hooks/command-validator.py *)

\* An operation that may raise returns "raise" in place of "true" / "false".
Bool3(b) == IF b THEN "true" ELSE "false"

\* load_config of the validator: the JSON value of config.json, whatever
\* its type, or the default when the file is absent or not JSON.
ValidatorLoadConfig(cfg) ==
    IF cfg.kind = "json" THEN cfg.json ELSE Obj([show_confidence |-> TRUE])

\* load_allowlist: <<"ok", entries>> or <<"raise">> (data.get on a JSON
\* value that is no object is not a JSONDecodeError).
LoadAllowlist(f) ==
    IF f.kind # "json" THEN <<"ok", <<>>>>
    ELSE IF f.json.t # "obj" THEN <<"raise">>
    ELSE <<"ok", Get(f.json.v, "patterns", <<>>)>>

\* One iteration of the loop of is_allowed.
AllowEntryMatches(command, entry) ==
    IF entry.t # "obj" THEN "raise"
    ELSE LET match_type    == Get(entry.v, "type", "prefix")
             match_pattern == Get(entry.v, "pattern", <<>>)
         IN  IF match_pattern = <<>> THEN "false"
             ELSE IF match_type = "prefix"
             THEN IF command.t = "str"
                  THEN Bool3(StartsWith(command.v, match_pattern))
                  ELSE "raise"
             ELSE IF match_type = "exact"
             THEN IF command.t = "str"
                  THEN Bool3(command.v = match_pattern)
                  ELSE "false"
             ELSE IF match_type = "contains"
             THEN IF command.t = "str"
                  THEN Bool3(Contains(command.v, match_pattern))
                  ELSE IF command.t = "list"
                  THEN Bool3(\E k \in 1..Len(command.v) :
                                 command.v[k] = Str(match_pattern))
                  ELSE "raise"
             ELSE IF match_type = "regex"
             THEN IF RegexError(match_pattern) THEN "false"
                  ELSE IF command.t = "str"
                  THEN Bool3(ReSearch(match_pattern, command.v))
                  ELSE "raise"
             ELSE "false"

RECURSIVE IsAllowedFrom(_, _, _)
IsAllowedFrom(command, allowlist, i) ==
    IF i > Len(allowlist) THEN "false"
    ELSE LET r == AllowEntryMatches(command, allowlist[i])
         IN  IF r = "false" THEN IsAllowedFrom(command, allowlist, i + 1)
             ELSE r

\* (mutant) the loop starts at the second entry
is_allowed_from_second(command, allowlist) ==
    IsAllowedFrom(command, allowlist, 2)

is_allowed(command, allowlist) == IsAllowedFrom(command, allowlist, 1)

\* What one of the two rule files yields: <<"ok", rules>>, <<"raise">>, or
\* <<"none">> when load_patterns goes on.
ReadPatterns(f) ==
    IF f.kind # "json" THEN <<"none">>
    ELSE IF f.json.t # "obj" THEN <<"raise">>
    ELSE <<"ok", Get(f.json.v, "patterns", <<>>)>>

\* (mutant) the rules of active.json are taken even when there are none
load_patterns_active_only(active, legacy) ==
    LET a == ReadPatterns(active)
    IN  IF a[1] = "none" THEN <<"ok", <<>>>> ELSE a

\* load_patterns: active.json when it holds rules, else known-errors.json.
load_patterns(active, legacy) ==
    LET a == ReadPatterns(active)
        l == ReadPatterns(legacy)
    IN  IF a[1] = "raise" THEN a
        ELSE IF a[1] = "ok" /\ a[2] # <<>> THEN a
        ELSE IF l[1] = "none" THEN <<"ok", <<>>>>
        ELSE l

\* check_pattern
check_pattern(command, pattern) ==
    IF pattern.t # "obj" THEN "raise"
    ELSE LET match_config == Get(pattern.v, "match", Obj(<<>>))
         IN  IF match_config.t # "obj" THEN "raise"
             ELSE LET match_type    == Get(match_config.v, "type", "contains")
                      match_pattern == Get(match_config.v, "pattern", <<>>)
                  IN  IF match_pattern = <<>> THEN "false"
                      ELSE IF match_type = "contains"
                      THEN IF command.t = "str"
                           THEN Bool3(Contains(command.v, match_pattern))
                           ELSE IF command.t = "list"
                           THEN Bool3(\E k \in 1..Len(command.v) :
                                          command.v[k] = Str(match_pattern))
                           ELSE "raise"
                      ELSE IF match_type = "exact"
                      THEN IF command.t = "str"
                           THEN Bool3(command.v = match_pattern)
                           ELSE "false"
                      ELSE IF match_type = "regex"
                      THEN IF RegexError(match_pattern) THEN "false"
                           ELSE IF RepeatTooLarge(match_pattern) THEN "raise"
                           ELSE IF command.t = "str"
                           THEN Bool3(ReSearch(match_pattern, command.v))
                           ELSE "raise"
                      ELSE "false"

\* format_block_message: <<"ok", text>>, the text written to stderr as the
\* parts it is made of (confidence -1: no annotation), or <<"raise">>
\* (config.get on a configuration that is no object).  Text that is only
\* copied is a sequence of pieces.
format_block_message(pattern, config) ==
    LET message     == Get(pattern.v, "message",
                           <<"Command blocked by known error pattern.">>)
        learned_fix == Get(pattern.v, "learned_fix",
                           Get(pattern.v, "suggestion", <<>>))
        confidence  == Get(pattern.v, "confidence", 0)
    IN  IF config.t # "obj" THEN <<"raise">>
        ELSE LET show_confidence == Get(config.v, "show_confidence", TRUE)
             IN  IF learned_fix = <<>>
                 THEN <<"ok", [message |-> message, fix |-> <<>>,
                               confidence |-> -1]>>
                 ELSE IF show_confidence /\ confidence > 0
                 THEN <<"ok", [message |-> message, fix |-> learned_fix,
                               confidence |-> confidence]>>
                 ELSE <<"ok", [message |-> message, fix |-> learned_fix,
                               confidence |-> -1]>>

NoOutput == [message |-> <<>>, fix |-> <<>>, confidence |-> -1]

Allow == [code |-> 0, err |-> NoOutput]

\* (mutant) a rule that raises is skipped and the loop goes on
RECURSIVE CheckRulesSkippingErrors(_, _, _, _)
CheckRulesSkippingErrors(command, patterns, config, i) ==
    IF i > Len(patterns) THEN Allow
    ELSE LET r == check_pattern(command, patterns[i])
         IN  IF r # "true"
             THEN CheckRulesSkippingErrors(command, patterns, config, i + 1)
             ELSE LET m == format_block_message(patterns[i], config)
                  IN  IF m[1] = "raise" THEN Allow
                      ELSE [code |-> 2, err |-> m[2]]

\* The loop over the rules in main: the first rule that matches blocks.
RECURSIVE CheckRulesFrom(_, _, _, _)
CheckRulesFrom(command, patterns, config, i) ==
    IF i > Len(patterns) THEN Allow
    ELSE LET r == check_pattern(command, patterns[i])
         IN  IF r = "raise" THEN Allow
             ELSE IF r = "false"
             THEN CheckRulesFrom(command, patterns, config, i + 1)
             ELSE LET m == format_block_message(patterns[i], config)
                  IN  IF m[1] = "raise" THEN Allow
                      ELSE [code |-> 2, err |-> m[2]]

\* main of the validator: the exit status and the text on stderr.
\* Every exception ends in exit 0.
ValidatorMain(req, cfgFile, allowFile, active, legacy) ==
    LET config == ValidatorLoadConfig(cfgFile)
    IN  IF req.kind # "json" THEN Allow
        ELSE IF req.json.t # "obj" THEN Allow
        ELSE LET tool_input == Get(req.json.v, "tool_input", Obj(<<>>))
             IN  IF tool_input.t # "obj" THEN Allow
                 ELSE LET command == Get(tool_input.v, "command", Str(<<>>))
                          al == LoadAllowlist(allowFile)
                      IN  IF ~Truthy(command) THEN Allow
                          ELSE IF al[1] = "raise" THEN Allow
                          ELSE IF is_allowed(command, al[2]) # "false" THEN Allow
                          ELSE LET ps == load_patterns(active, legacy)
                               IN  IF ps[1] = "raise" THEN Allow
                                   ELSE CheckRulesFrom(command, ps[2], config, 1)

-----------------------------------------------------------------------------
(* The validator's inputs: requests and stored files *)

t_rm == <<"r", "m">>
t_ls == <<"l", "s">>
t_rm_x == <<"r", "m", " ", "x">>

Requests ==
    { Invalid,                                              \* not JSON
      File(List(<<>>)),                                     \* no object
      File(Obj([tool_input |-> Str(t_rm)])),                \* wrongly typed
      File(Obj([tool_input |-> Obj(<<>>)])),                \* no command
      File(Obj([tool_input |-> Obj([command |-> Num(5)])])),
      File(Obj([tool_input |-> Obj([command |-> List(<<Str(t_rm)>>)])])),
      File(Obj([tool_input |-> Obj([command |-> Str(t_rm_x)])])),
      File(Obj([tool_input |-> Obj([command |-> Str(t_ls)])])) }

AllowEntries ==
    { Obj([type |-> "prefix", pattern |-> t_rm]),
      Obj([type |-> "exact", pattern |-> t_ls]),
      Obj([type |-> "regex", pattern |-> <<"^", "l", ".">>]),
      Obj([type |-> "regex", pattern |-> <<"(">>]),         \* re.error
      Str(t_rm) }                                           \* no object

AllowlistFiles ==
    {Absent, Invalid, File(List(<<>>))}
        \cup {File(Obj([patterns |-> l])) : l \in SeqsUpTo(AllowEntries, MaxAllow)}

rule_contains_rm ==
    Obj([id |-> <<"n", "o", "_", "r", "m">>,
         match |-> Obj([type |-> "contains", pattern |-> t_rm]),
         message |-> <<"BLOCKED: rm">>])

rule_regex_rm ==
    Obj([id |-> <<"c", "m", "d", "_", "r", "m">>,
         match |-> Obj([type |-> "regex",
                        pattern |-> <<"^", "r", "m", "(", "\\", "s", "|", "$", ")">>]),
         message |-> <<"BLOCKED: 'rm' is not available on this system.">>,
         learned_fix |-> <<"d", "e", "l", " ", "x">>,
         confidence |-> 50])

rule_exact_ls ==
    Obj([id |-> <<"n", "o", "_", "l", "s">>,
         match |-> Obj([type |-> "exact", pattern |-> t_ls]),
         message |-> <<"BLOCKED: ls">>,
         suggestion |-> <<"d", "i", "r">>])

rule_bad_match ==                                            \* match is no object
    Obj([id |-> <<"b", "a", "d">>, match |-> Str(t_rm)])

rule_bad_regex ==                                            \* re.error
    Obj([id |-> <<"b", "a", "d", "r", "e">>,
         match |-> Obj([type |-> "regex", pattern |-> <<"*", "r", "m">>])])

ValidatorRules ==
    {rule_contains_rm, rule_regex_rm, rule_exact_ls, rule_bad_match,
     rule_bad_regex}

ActiveFiles ==
    {Absent, Invalid, File(List(<<>>))}
        \cup {File(Obj([patterns |-> l])) : l \in SeqsUpTo(ValidatorRules, MaxRules)}

LegacyFiles == {Absent, File(Obj([patterns |-> <<rule_exact_ls>>]))}

ValidatorConfigFiles ==
    {Absent, File(List(<<>>)), File(Obj([show_confidence |-> FALSE]))}

\* No fix tracker is running; logged counts the ErrorEvents appended, and
\* overlapped tells whether one was appended while a fix tracker held the
\* log in memory.
Idle == [pc |-> "idle", entries |-> <<>>, logged |-> 0, overlapped |-> FALSE]

NotRun == -1

\* config.json, the pack files and active.json
Disk(config, packs, active) ==
    [config |-> config, packs |-> packs, active |-> active]

InitValidate ==
    /\ configFile \in ValidatorConfigFiles
    /\ allowlistFile \in AllowlistFiles
    /\ activeFile \in ActiveFiles
    /\ legacyFile \in LegacyFiles
    /\ request \in Requests
    /\ exitCode = NotRun
    /\ stderr = NoOutput
    /\ errorsFile = <<>>
    /\ clock = 0
    /\ hook = "none"
    /\ logBefore = <<>>
    /\ packFiles = <<>>
    /\ curatedLog = <<>>
    /\ hashSeed = <<>>
    /\ tracker = Idle
    /\ diskBefore = Disk(configFile, packFiles, activeFile)

\* The validator hook runs on the request it is given on stdin.
Validate ==
    /\ exitCode = NotRun
    /\ LET out == ValidatorMain(request, configFile, allowlistFile,
                                activeFile, legacyFile)
       IN  /\ exitCode' = out.code
           /\ stderr' = out.err
    /\ hook' = "command-validator"
    /\ UNCHANGED <<request, configFile, allowlistFile, activeFile, legacyFile,
                   errorsFile, clock, logBefore, packFiles, curatedLog,
                   hashSeed, tracker>>
    /\ diskBefore' = Disk(configFile, packFiles, activeFile)

NextValidate == Validate

SpecValidate == InitValidate /\ [][NextValidate]_vars

\* Rules with a defect, and the rule files made of them and of sound rules

rule_empty_pattern ==
    Obj([id |-> <<"e", "m", "p", "t", "y">>,
         match |-> Obj([type |-> "contains", pattern |-> <<>>])])

rule_unknown_type ==
    Obj([id |-> <<"g", "l", "o", "b">>,
         match |-> Obj([type |-> "glob", pattern |-> <<"r", "m", "*">>])])

rule_huge_repeat ==                                          \* OverflowError
    Obj([id |-> <<"h", "u", "g", "e">>,
         match |-> Obj([type |-> "regex",
                        pattern |-> <<"r", "m", "{", "4", "2", "9", "4",
                                      "9", "6", "7", "2", "9", "6", "}">>])])

DefectiveRules ==
    {rule_empty_pattern, rule_unknown_type, rule_bad_regex, rule_huge_repeat}

DefectRuleFiles ==
    {File(Obj([patterns |-> l])) :
        l \in SeqsUpTo(DefectiveRules \cup {rule_contains_rm, rule_regex_rm},
                       MaxRules)}

InitDefects ==
    /\ configFile \in {Absent, File(Obj([show_confidence |-> FALSE]))}
    /\ allowlistFile = Absent
    /\ activeFile \in DefectRuleFiles
    /\ legacyFile = Absent
    /\ request \in Requests
    /\ exitCode = NotRun
    /\ stderr = NoOutput
    /\ errorsFile = <<>>
    /\ clock = 0
    /\ hook = "none"
    /\ logBefore = <<>>
    /\ packFiles = <<>>
    /\ curatedLog = <<>>
    /\ hashSeed = <<>>
    /\ tracker = Idle
    /\ diskBefore = Disk(configFile, packFiles, activeFile)

SpecDefects == InitDefects /\ [][NextValidate]_vars

-----------------------------------------------------------------------------
(* Claims about the validator, checked under SpecValidate *)

HasCommand(req) ==
    /\ req.kind = "json" /\ req.json.t = "obj"
    /\ "tool_input" \in DOMAIN req.json.v
    /\ req.json.v.tool_input.t = "obj"
    /\ "command" \in DOMAIN req.json.v.tool_input.v

CommandOf(req) == req.json.v.tool_input.v.command

\* The request carries a command that is a non-empty string.
StringCommand(req) ==
    HasCommand(req) /\ CommandOf(req).t = "str" /\ CommandOf(req).v # <<>>

\* The "patterns" list of a file that holds a JSON object; empty otherwise.
PatternsOf(f) ==
    IF f.kind = "json" /\ f.json.t = "obj"
    THEN Get(f.json.v, "patterns", <<>>)
    ELSE <<>>

NoObject(f) == f.kind = "json" /\ f.json.t # "obj"

\* e is a well-formed allowlist entry that matches the string cmd.
AllowEntryCovers(cmd, e) ==
    /\ e.t = "obj"
    /\ {"type", "pattern"} \subseteq DOMAIN e.v
    /\ e.v.pattern # <<>>
    /\ \/ e.v.type = "prefix" /\ StartsWith(cmd, e.v.pattern)
       \/ e.v.type = "exact" /\ cmd = e.v.pattern
       \/ /\ e.v.type = "regex" /\ ~RegexError(e.v.pattern)
          /\ ReSearch(e.v.pattern, cmd)

\* r is a well-formed rule whose match specification matches the string cmd.
RuleCovers(cmd, r) ==
    /\ r.t = "obj"
    /\ "match" \in DOMAIN r.v
    /\ r.v.match.t = "obj"
    /\ {"type", "pattern"} \subseteq DOMAIN r.v.match.v
    /\ r.v.match.v.pattern # <<>>
    /\ \/ r.v.match.v.type = "contains" /\ Contains(cmd, r.v.match.v.pattern)
       \/ r.v.match.v.type = "exact" /\ cmd = r.v.match.v.pattern
       \/ /\ r.v.match.v.type = "regex" /\ ~RegexError(r.v.match.v.pattern)
          /\ ReSearch(r.v.match.v.pattern, cmd)

AllowlistCovers(cmd) ==
    \E k \in DOMAIN PatternsOf(allowlistFile) :
        AllowEntryCovers(cmd, PatternsOf(allowlistFile)[k])

\* The rules the validator works with: those of active.json, or those of
\* known-errors.json when active.json yields none.
LoadedRules ==
    IF PatternsOf(activeFile) # <<>> THEN PatternsOf(activeFile)
    ELSE PatternsOf(legacyFile)

\* The index of the first rule of rules that matches cmd; 0 if none.
FirstCovering(cmd, rules) ==
    IF \E k \in DOMAIN rules : RuleCovers(cmd, rules[k])
    THEN CHOOSE k \in DOMAIN rules :
             /\ RuleCovers(cmd, rules[k])
             /\ \A j \in 1..(k - 1) : ~RuleCovers(cmd, rules[j])
    ELSE 0

\* C1: allowlist dominates.  Whenever the validator has run on a request
\* whose command is a non-empty string and some well-formed allowlist entry
\* (prefix, exact or regex) matches that command, the exit status is 0,
\* whatever the rule files and the configuration hold.
C1_AllowlistDominates ==
    (/\ exitCode # NotRun
     /\ StringCommand(request)
     /\ AllowlistCovers(CommandOf(request).v))
        => exitCode = 0

\* C1 (witness): an allowlisted command that a rule of the active set
\* matches has been let through.
C1_Witness ==
    /\ exitCode = 0
    /\ StringCommand(request)
    /\ AllowlistCovers(CommandOf(request).v)
    /\ \E k \in DOMAIN PatternsOf(activeFile) :
           RuleCovers(CommandOf(request).v, PatternsOf(activeFile)[k])
    /\ \A k \in DOMAIN PatternsOf(allowlistFile) :
           PatternsOf(allowlistFile)[k].t = "obj"

ReachesMatch(k) ==
    /\ HasCommand(request)
    /\ Truthy(CommandOf(request))
    /\ ~NoObject(allowlistFile)
    /\ \A i \in DOMAIN PatternsOf(allowlistFile) :
           AllowEntryMatches(CommandOf(request), PatternsOf(allowlistFile)[i]) = "false"
    /\ ~NoObject(activeFile)
    /\ PatternsOf(activeFile) = <<>> => ~NoObject(legacyFile)
    /\ k \in DOMAIN LoadedRules
    /\ check_pattern(CommandOf(request), LoadedRules[k]) = "true"
    /\ \A j \in 1..(k - 1) :
           check_pattern(CommandOf(request), LoadedRules[j]) = "false"

ConfigIsObject == configFile.kind # "json" \/ configFile.json.t = "obj"

C3_FailsOpen ==
    exitCode # NotRun =>
        /\ exitCode \in {0, 2}
        /\ exitCode = 2 =>
               /\ StringCommand(request)
               /\ FirstCovering(CommandOf(request).v, LoadedRules) # 0

-----------------------------------------------------------------------------
(* Text used by the hooks that write data/errors.jsonl *)

Uppers ==
    <<"A","B","C","D","E","F","G","H","I","J","K","L","M","N","O","P","Q",
      "R","S","T","U","V","W","X","Y","Z">>

Lowers ==
    <<"a","b","c","d","e","f","g","h","i","j","k","l","m","n","o","p","q",
      "r","s","t","u","v","w","x","y","z">>

UpperSet == {Uppers[k] : k \in 1..Len(Uppers)}
LowerSet == {Lowers[k] : k \in 1..Len(Lowers)}

\* str.lower
Lower(s) ==
    LET lower == [i \in 1..Len(s) |->
                     IF s[i] \in UpperSet
                     THEN Lowers[CHOOSE k \in 1..Len(Uppers) : Uppers[k] = s[i]]
                     ELSE s[i]]
    IN  SubSeq(lower, 1, Len(s))

\* s[:n]
Take(s, n) == IF Len(s) <= n THEN s ELSE SubSeq(s, 1, n)

\* Path(p).name: the last component of a path
RECURSIVE PathName(_)
PathName(p) ==
    IF p = <<>> THEN <<>>
    ELSE IF p[Len(p)] = "/" THEN PathName(SubSeq(p, 1, Len(p) - 1))
    ELSE LET S == {i \in 1..Len(p) : p[i] = "/"}
         IN  IF S = {} THEN p
             ELSE SubSeq(p, (CHOOSE i \in S : \A j \in S : j <= i) + 1, Len(p))

t_unknown == <<"u", "n", "k", "n", "o", "w", "n">>
t_None == <<"N", "o", "n", "e">>
t_stdout_open == <<"{", "'", "s", "t", "d", "o", "u", "t", "'", ":", " ", "'">>
t_stdout_close == <<"'", "}">>
t_json_stdout_open == <<"{", "\"", "s", "t", "d", "o", "u", "t", "\"", ":", " ", "\"">>
t_json_stdout_close == <<"\"", "}">>

\* str(x) of a JSON value read from stdin: a string is itself, None is
\* "None", and an object {"stdout": text} prints as a dict.  (The texts of
\* this model hold no quote and no backslash.)
PyStr(j) ==
    CASE j.t = "str"  -> j.v
      [] j.t = "null" -> t_None
      [] j.t = "obj"  -> t_stdout_open \o j.v.stdout.v \o t_stdout_close

\* json.dumps(x) of an object {"stdout": text}
JsonDumps(j) == t_json_stdout_open \o j.v.stdout.v \o t_json_stdout_close

k_error_colon == <<"e", "r", "r", "o", "r", ":">>
k_Error_colon == <<"E", "r", "r", "o", "r", ":">>
k_ERROR_colon == <<"E", "R", "R", "O", "R", ":">>
k_not_recognized == <<"n", "o", "t", " ", "r", "e", "c", "o", "g", "n", "i", "z", "e", "d">>
k_not_found == <<"n", "o", "t", " ", "f", "o", "u", "n", "d">>
k_cannot_find == <<"c", "a", "n", "n", "o", "t", " ", "f", "i", "n", "d">>
k_permission_denied == <<"p", "e", "r", "m", "i", "s", "s", "i", "o", "n", " ", "d", "e", "n", "i", "e", "d">>
k_access_denied == <<"a", "c", "c", "e", "s", "s", " ", "d", "e", "n", "i", "e", "d">>
k_failed == <<"f", "a", "i", "l", "e", "d">>
k_Failed == <<"F", "a", "i", "l", "e", "d">>
k_FAILED == <<"F", "A", "I", "L", "E", "D">>
k_exception == <<"e", "x", "c", "e", "p", "t", "i", "o", "n">>
k_Exception == <<"E", "x", "c", "e", "p", "t", "i", "o", "n">>
k_command_not_found == <<"c", "o", "m", "m", "a", "n", "d", " ", "n", "o", "t", " ", "f", "o", "u", "n", "d">>
k_No_such_file_or_directory == <<"N", "o", " ", "s", "u", "c", "h", " ", "f", "i", "l", "e", " ", "o", "r", " ", "d", "i", "r", "e", "c", "t", "o", "r", "y">>
k_permission == <<"p", "e", "r", "m", "i", "s", "s", "i", "o", "n">>
k_not_permitted == <<"n", "o", "t", " ", "p", "e", "r", "m", "i", "t", "t", "e", "d">>
k_syntax == <<"s", "y", "n", "t", "a", "x">>
k_token == <<"t", "o", "k", "e", "n">>
k_unexpected == <<"u", "n", "e", "x", "p", "e", "c", "t", "e", "d">>
k_invalid == <<"i", "n", "v", "a", "l", "i", "d">>

\* d[k] = v on a dict
SetKey(d, k, v) == (k :> v) @@ d

-----------------------------------------------------------------------------
(* hooks/error-logger.py *)

\* The error text kept of a failure report
ErrorCap == 2000

\* (mutant) a configuration that cannot be read gives no default
LoggerLoadConfigStrict(cfg) ==
    IF cfg.kind = "json" THEN cfg.json ELSE Null

\* load_config of the logger
LoggerLoadConfig(cfg) ==
    IF cfg.kind = "json" THEN cfg.json ELSE Obj([track_fixes |-> TRUE])

\* generate_error_id: the wall clock to the millisecond
generate_error_id(now) == <<"err", now>>

\* categorize_error
categorize_error(error_text) ==
    LET error_lower == Lower(error_text)
    IN  IF \E kw \in {k_not_recognized, k_not_found, k_cannot_find} :
               Contains(error_lower, kw)
        THEN "path_error"
        ELSE IF \E kw \in {k_permission, k_access_denied, k_not_permitted} :
               Contains(error_lower, kw)
        THEN "permission_error"
        ELSE IF \E kw \in {k_syntax, k_token, k_unexpected, k_invalid} :
               Contains(error_lower, kw)
        THEN "syntax_error"
        ELSE "action_error"

\* The error text of a failure report: "error", else "tool_response",
\* else "", as a string.
ErrorText(input_data) ==
    LET e == Get(input_data, "error", Null)
        r == Get(input_data, "tool_response", Null)
        x == IF Truthy(e) THEN e ELSE IF Truthy(r) THEN r ELSE Str(<<>>)
    IN  IF x.t = "obj" THEN JsonDumps(x) ELSE PyStr(x)

\* main of the logger: the log after the invocation.  Every exception ends
\* the invocation with nothing appended.
LoggerMain(report, cfgFile, log, now) ==
    IF report.kind # "json" THEN log
    ELSE IF report.json.t # "obj" THEN log
    ELSE LET input_data  == report.json.v
             tool_name   == Get(input_data, "tool_name", t_unknown)
             tool_input  == Get(input_data, "tool_input", Obj(<<>>))
             error_text  == ErrorText(input_data)
             session_id  == Get(input_data, "session_id", t_unknown)
             project_dir == Get(input_data, "cwd",
                                Get(input_data, "project_dir", <<>>))
             config      == LoggerLoadConfig(cfgFile)
         IN  IF config.t # "obj" THEN log
             ELSE Append(log,
                    [id           |-> generate_error_id(now),
                     type         |-> "error",
                     timestamp    |-> now,
                     session_id   |-> session_id,
                     category     |-> categorize_error(error_text),
                     tool         |-> tool_name,
                     input        |-> tool_input,
                     error        |-> Take(error_text, ErrorCap),
                     awaiting_fix |-> Get(config.v, "track_fixes", TRUE),
                     context      |->
                         [working_dir |-> project_dir,
                          project     |-> IF project_dir # <<>>
                                          THEN PathName(project_dir)
                                          ELSE t_unknown]])

-----------------------------------------------------------------------------
(* hooks/fix-tracker.py *)

\* load_config of the fix tracker
TrackerLoadConfig(cfg) ==
    IF cfg.kind = "json" THEN cfg.json ELSE Obj([track_fixes |-> TRUE])

\* generate_fix_id: the wall clock to the millisecond
generate_fix_id(now) == <<"fix", now>>

\* (mutant) the first error entry of the log
get_first_error(log) ==
    LET E == {i \in 1..Len(log) : Get(log[i], "type", "") = "error"}
    IN  IF E = {} THEN 0 ELSE CHOOSE i \in E : \A j \in E : i <= j

\* get_last_error: the position of the last entry of type "error", 0 for
\* None
get_last_error(log) ==
    LET E == {i \in 1..Len(log) : Get(log[i], "type", "") = "error"}
    IN  IF E = {} THEN 0 ELSE CHOOSE i \in E : \A j \in E : j <= i

\* (mutant) the file is rewritten without the error entries that carry
\* another id
update_error_dropping_others(log, error_id, linked_fix_id) ==
    LET kept == {i \in 1..Len(log) :
                    \/ Get(log[i], "type", "") # "error"
                    \/ Get(log[i], "id", <<"none", 0>>) = error_id}
    IN  [k \in 1..Cardinality(kept) |->
            LET i == CHOOSE i \in kept :
                         Cardinality({j \in kept : j < i}) = k - 1
            IN  IF Get(log[i], "id", <<"none", 0>>) = error_id
                THEN SetKey(SetKey(log[i], "awaiting_fix", FALSE),
                            "linked_fix", linked_fix_id)
                ELSE log[i]]

\* update_error_awaiting_fix: the file is rewritten, every entry carrying
\* error_id with awaiting_fix false and linked_fix set.
update_error_awaiting_fix(log, error_id, linked_fix_id) ==
    [i \in 1..Len(log) |->
        IF Get(log[i], "id", <<"none", 0>>) = error_id
        THEN SetKey(SetKey(log[i], "awaiting_fix", FALSE),
                    "linked_fix", linked_fix_id)
        ELSE log[i]]

error_indicators ==
    <<k_error_colon, k_Error_colon, k_ERROR_colon,
      k_not_recognized, k_not_found, k_cannot_find,
      k_permission_denied, k_access_denied,
      k_failed, k_Failed, k_FAILED,
      k_exception, k_Exception,
      k_command_not_found,
      k_No_such_file_or_directory>>

\* (mutant) no response text looks like a failure
NeverLooksLikeFailure(response_text) == FALSE

\* any(indicator in response_text for indicator in error_indicators)
LooksLikeFailure(response_text) ==
    \E i \in 1..Len(error_indicators) :
        Contains(response_text, error_indicators[i])

\* main of the fix tracker: the log after the invocation.  Every exit
\* before the append, and every exception, leaves the log as it was.
FixTrackerMain(report, cfgFile, log, now) ==
    LET config == TrackerLoadConfig(cfgFile)
    IN  IF config.t # "obj" THEN log
        ELSE IF ~Get(config.v, "track_fixes", TRUE) THEN log
        ELSE IF report.kind # "json" THEN log
        ELSE IF report.json.t # "obj" THEN log
        ELSE
        LET input_data    == report.json.v
            tool_name     == Get(input_data, "tool_name", t_unknown)
            tool_input    == Get(input_data, "tool_input", Obj(<<>>))
            tool_response == Get(input_data, "tool_response", Str(<<>>))
            session_id    == Get(input_data, "session_id", t_unknown)
        IN  IF LooksLikeFailure(PyStr(tool_response)) THEN log
            ELSE IF tool_input.t # "obj" THEN log
            ELSE
            LET command == Get(tool_input.v, "command", Str(<<>>))
                k       == get_last_error(log)
            IN  IF ~Truthy(command) THEN log
                ELSE IF k = 0 THEN log
                ELSE IF ~Get(log[k], "awaiting_fix", FALSE) THEN log
                ELSE IF Get(log[k], "session_id", Null) # session_id THEN log
                ELSE IF Get(log[k], "tool", Null) # tool_name THEN log
                ELSE
                LET fix_id     == generate_fix_id(now)
                    fix_record ==
                        [id           |-> fix_id,
                         type         |-> "fix",
                         linked_error |-> log[k].id,
                         timestamp    |-> now,
                         session_id   |-> session_id,
                         tool         |-> tool_name,
                         command      |-> command]
                IN  update_error_awaiting_fix(Append(log, fix_record),
                                              log[k].id, fix_id)

-----------------------------------------------------------------------------
(* The event log: failure reports and fix-candidate reports *)

t_s1 == <<"s", "1">>
t_s2 == <<"s", "2">>
t_Bash == <<"B", "a", "s", "h">>
t_Edit == <<"E", "d", "i", "t">>
t_w_p == <<"/", "w", "/", "p">>
t_del_x == <<"d", "e", "l", " ", "x">>
t_ok == <<"o", "k">>
t_rm_not_found == <<"r", "m", ":", " ", "c", "o", "m", "m", "a", "n", "d", " ", "n", "o", "t", " ", "f", "o", "u", "n", "d">>

\* The session and tool of a report
Sources == {<<t_s1, t_Bash>>, <<t_s2, t_Bash>>, <<t_s1, t_Edit>>}

FailureReports ==
    {Invalid}
        \cup {File(Obj([tool_name  |-> st[2],
                        tool_input |-> Obj([command |-> Str(t_rm_x)]),
                        error      |-> Str(t_rm_not_found),
                        session_id |-> st[1],
                        cwd        |-> t_w_p])) : st \in Sources}

FixReport(s, tl, ti, tr) ==
    File(Obj([tool_name |-> tl, tool_input |-> ti, tool_response |-> tr,
              session_id |-> s]))

\* Every session and tool with a command that succeeded; for one of them
\* also a report without a command, one with a wrongly typed tool_input,
\* one whose response is an object and one that looks like a failure.
FixReports ==
    {Invalid}
        \cup {FixReport(st[1], st[2], Obj([command |-> Str(t_del_x)]),
                        Str(t_ok)) : st \in Sources}
        \cup {FixReport(t_s1, t_Bash, Obj(<<>>), Str(t_ok)),
              FixReport(t_s1, t_Bash, Str(t_del_x), Str(t_ok)),
              FixReport(t_s1, t_Bash, Obj([command |-> Str(t_del_x)]),
                        Obj([stdout |-> Str(t_ok)])),
              FixReport(t_s1, t_Bash, Obj([command |-> Str(t_del_x)]),
                        Str(t_rm_not_found))}

LogConfigFiles ==
    {Absent, File(Obj([track_fixes |-> FALSE])), File(List(<<>>))}

InitLog ==
    /\ configFile \in LogConfigFiles
    /\ allowlistFile = Absent
    /\ activeFile = Absent
    /\ legacyFile = Absent
    /\ request = Absent
    /\ exitCode = NotRun
    /\ stderr = NoOutput
    /\ errorsFile = <<>>
    /\ clock = 0
    /\ hook = "none"
    /\ logBefore = <<>>
    /\ packFiles = <<>>
    /\ curatedLog = <<>>
    /\ hashSeed = <<>>
    /\ tracker = Idle
    /\ diskBefore = Disk(configFile, packFiles, activeFile)

\* The logger hook runs on a failure report, after the clock has moved on
\* by one of ticks.
LogErrorWithin(reports, ticks, cap) ==
    \E report \in reports, dt \in ticks :
        /\ clock + dt <= MaxTime
        /\ Len(errorsFile) < cap
        /\ errorsFile' = LoggerMain(report, configFile, errorsFile, clock + dt)
        /\ clock' = clock + dt
        /\ request' = report
        /\ exitCode' = 0
        /\ hook' = "error-logger"
        /\ logBefore' = errorsFile
        /\ diskBefore' = Disk(configFile, packFiles, activeFile)
        /\ UNCHANGED <<configFile, allowlistFile, activeFile, legacyFile,
                       stderr, packFiles, curatedLog, hashSeed, tracker>>

LogErrorFrom(reports, ticks) == LogErrorWithin(reports, ticks, MaxLog)

\* The clock has moved on by less than a millisecond, or by one.
Ticks == 0..1

LogError == LogErrorFrom(FailureReports, Ticks)

\* The fix tracker hook runs on a fix-candidate report.
TrackFixWithin(reports, ticks, cap) ==
    \E report \in reports, dt \in ticks :
        /\ clock + dt <= MaxTime
        /\ Len(errorsFile) < cap
        /\ errorsFile' = FixTrackerMain(report, configFile, errorsFile,
                                        clock + dt)
        /\ clock' = clock + dt
        /\ request' = report
        /\ exitCode' = 0
        /\ hook' = "fix-tracker"
        /\ logBefore' = errorsFile
        /\ diskBefore' = Disk(configFile, packFiles, activeFile)
        /\ UNCHANGED <<configFile, allowlistFile, activeFile, legacyFile,
                       stderr, packFiles, curatedLog, hashSeed, tracker>>

TrackFixFrom(reports, ticks) == TrackFixWithin(reports, ticks, MaxLog)

TrackFix == TrackFixFrom(FixReports, Ticks)

\* The operator edits config.json between two invocations; each invocation
\* reads it anew.
EditConfig ==
    /\ configFile' \in LogConfigFiles \ {configFile}
    /\ hook' = "operator"
    /\ request' = Absent
    /\ logBefore' = errorsFile
    /\ UNCHANGED <<allowlistFile, activeFile, legacyFile, exitCode, stderr,
                   errorsFile, clock, packFiles, curatedLog, hashSeed, tracker>>
    /\ diskBefore' = Disk(configFile', packFiles, activeFile)

NextLog == LogError \/ TrackFix \/ EditConfig

SpecLog == InitLog /\ [][NextLog]_vars

-----------------------------------------------------------------------------
(* Claims about the event log, checked under SpecLog *)

IsErrorEvent(e) == e.type = "error"
IsFixEvent(e) == e.type = "fix"

ErrorEvents(log) == {i \in 1..Len(log) : IsErrorEvent(log[i])}
FixEvents(log) == {i \in 1..Len(log) : IsFixEvent(log[i])}

\* The position of the most recent ErrorEvent of a log that has one
MostRecentError(log) ==
    CHOOSE i \in ErrorEvents(log) : \A j \in ErrorEvents(log) : j <= i

\* The last invocation was the fix tracker on a fix-candidate report whose
\* session and tool are those of the most recent ErrorEvent, which was
\* awaiting its fix, and whose response text holds no failure indicator.
FixCandidateArrived ==
    /\ hook = "fix-tracker"
    /\ request.kind = "json"
    /\ request.json.t = "obj"
    /\ ErrorEvents(logBefore) # {}
    /\ LET e == logBefore[MostRecentError(logBefore)]
           r == request.json.v
       IN  /\ e.awaiting_fix = TRUE
           /\ {"session_id", "tool_name", "tool_response"} \subseteq DOMAIN r
           /\ r.session_id = e.session_id
           /\ r.tool_name = e.tool
           /\ \A i \in 1..Len(error_indicators) :
                  ~Contains(PyStr(r.tool_response), error_indicators[i])

\* The log holds a new FixEvent linked to the most recent ErrorEvent of the
\* log before, and that ErrorEvent is no longer awaiting and links back.
FixRecorded ==
    LET k == MostRecentError(logBefore)
        n == Len(errorsFile)
    IN  /\ n = Len(logBefore) + 1
        /\ IsFixEvent(errorsFile[n])
        /\ errorsFile[n].linked_error = logBefore[k].id
        /\ IsErrorEvent(errorsFile[k])
        /\ errorsFile[k].awaiting_fix = FALSE
        /\ "linked_fix" \in DOMAIN errorsFile[k]
        /\ errorsFile[k].linked_fix = errorsFile[n].id

\* The report names a command: tool_input is an object whose command is
\* not empty.
CommandGiven ==
    /\ "tool_input" \in DOMAIN request.json.v
    /\ request.json.v.tool_input.t = "obj"
    /\ "command" \in DOMAIN request.json.v.tool_input.v
    /\ Truthy(request.json.v.tool_input.v.command)

\* Fix tracking is enabled: config.json is absent or unparsable, or an
\* object whose track_fixes is absent or true.
TrackingEnabled ==
    \/ configFile.kind # "json"
    \/ /\ configFile.json.t = "obj"
       /\ "track_fixes" \in DOMAIN configFile.json.v
              => configFile.json.v.track_fixes = TRUE

\* C4 (as claimed): pairing correctness.  When the most recent ErrorEvent is
\* awaiting its fix and a fix-candidate report of the same session and tool
\* arrives whose response holds no failure indicator, the log afterwards
\* holds a new FixEvent linked to that error, and the error has awaiting_fix
\* false and linked_fix set to the fix's id.
C4_PairingCorrect == FixCandidateArrived => FixRecorded

\* C4 (amended): as above, for a report that names a non-empty command and
\* with fix tracking enabled in the configuration the tracker reads.
C4_PairingCorrectWhenTracked ==
    (FixCandidateArrived /\ CommandGiven /\ TrackingEnabled) => FixRecorded

\* C4 (witness): a fix was recorded for the second of two ErrorEvents with
\* different ids.
C4_Witness ==
    /\ FixCandidateArrived /\ CommandGiven /\ TrackingEnabled
    /\ FixRecorded
    /\ Len(logBefore) = 2
    /\ IsErrorEvent(logBefore[1]) /\ IsErrorEvent(logBefore[2])
    /\ logBefore[1].id # logBefore[2].id
    /\ logBefore[1].awaiting_fix = TRUE

\* No two ErrorEvents of the log carry the same id.
UniqueErrorIds ==
    \A i, j \in ErrorEvents(errorsFile) :
        errorsFile[i].id = errorsFile[j].id => i = j

OneFixPerError ==
    /\ \A i, j \in FixEvents(errorsFile) :
           errorsFile[i].linked_error = errorsFile[j].linked_error => i = j
    /\ \A i \in FixEvents(errorsFile) :
           Cardinality({k \in ErrorEvents(errorsFile) :
                            errorsFile[k].id = errorsFile[i].linked_error}) <= 1

\* C5 (as claimed): in every reachable state of the log no two FixEvents
\* share a linked_error, and the linked_error of a FixEvent is the id of at
\* most one ErrorEvent.
C5_OneFixPerError == OneFixPerError

\* C5 holds of every log whose ErrorEvents carry pairwise different ids.
C5_HoldsWhenIdsUnique == UniqueErrorIds => OneFixPerError

\* What the last invocation did to the events it found: nothing removed or
\* reordered, and at most one changed, which is the ErrorEvent a FixEvent was
\* just accepted for, changed in awaiting_fix and linked_fix only.
LogPreserved ==
    LET n       == Len(errorsFile)
        changed == {i \in 1..Len(logBefore) : errorsFile[i] # logBefore[i]}
    IN  /\ n >= Len(logBefore)
        /\ changed # {} =>
               /\ hook = "fix-tracker"
               /\ n = Len(logBefore) + 1
               /\ IsFixEvent(errorsFile[n])
               /\ Cardinality(changed) = 1
               /\ \A i \in changed :
                      /\ IsErrorEvent(logBefore[i])
                      /\ logBefore[i].id = errorsFile[n].linked_error
                      /\ errorsFile[i] =
                             SetKey(SetKey(logBefore[i], "awaiting_fix", FALSE),
                                    "linked_fix", errorsFile[n].id)

\* C6 (as claimed): the log is append-only but for one mutation.  Every
\* invocation leaves the events it found in place and in order, and changes
\* at most one of them: the single ErrorEvent for which a FixEvent was just
\* accepted, in awaiting_fix and linked_fix only.
C6_AppendOnlyButOneFlip == LogPreserved

\* C6 holds of every log whose ErrorEvents carry pairwise different ids.
C6_HoldsWhenIdsUnique == UniqueErrorIds => LogPreserved

-----------------------------------------------------------------------------
(* Text used by hooks/error-curator.py *)

\* str.split(): the words of a text
RECURSIVE Split(_)
Split(s) ==
    IF s = <<>> THEN <<>>
    ELSE IF IsSpace(s[1]) THEN Split(Tail(s))
    ELSE LET n == CHOOSE k \in 1..Len(s) :
                      /\ \A i \in 1..k : ~IsSpace(s[i])
                      /\ k = Len(s) \/ IsSpace(s[k + 1])
         IN  <<SubSeq(s, 1, n)>> \o Split(SubSeq(s, n + 1, Len(s)))

\* command.split()[0] if command.split() else ""
FirstWord(command) ==
    LET words == Split(command)
    IN  IF words # <<>> THEN words[1] ELSE <<>>

\* str.strip()
RECURSIVE Strip(_)
Strip(s) ==
    IF s = <<>> THEN s
    ELSE IF IsSpace(s[1]) THEN Strip(Tail(s))
    ELSE IF IsSpace(s[Len(s)]) THEN Strip(SubSeq(s, 1, Len(s) - 1))
    ELSE s

\* str.find: the first position of p in s, 0 when there is none
Find(s, p) ==
    LET At == {i \in 1..(Len(s) + 1) :
                   i + Len(p) - 1 <= Len(s) /\ SubSeq(s, i, i + Len(p) - 1) = p}
    IN  IF At = {} THEN 0 ELSE CHOOSE i \in At : \A j \in At : i <= j

\* str.replace(old, new), old not empty
RECURSIVE Replace(_, _, _)
Replace(s, old, new) ==
    LET i == Find(s, old)
    IN  IF i = 0 THEN s
        ELSE SubSeq(s, 1, i - 1) \o new
                 \o Replace(SubSeq(s, i + Len(old), Len(s)), old, new)

\* str.split(sep, 1) for a one-character sep: the part before the first sep
\* and the part after it; one part when there is no sep.
SplitOnce(s, sep) ==
    LET i == Find(s, <<sep>>)
    IN  IF i = 0 THEN <<s>>
        ELSE <<SubSeq(s, 1, i - 1), SubSeq(s, i + 1, Len(s))>>

ReSpecialChars ==
    {"(", ")", "[", "]", "{", "}", "?", "*", "+", "-", "|", "^", "$", "\\",
     ".", "&", "~", "#", " ", "\t", "\n"}

\* re.escape
RECURSIVE ReEscape(_)
ReEscape(s) ==
    IF s = <<>> THEN <<>>
    ELSE (IF s[1] \in ReSpecialChars THEN <<"\\", s[1]>> ELSE <<s[1]>>)
             \o ReEscape(Tail(s))

IsUpper(c) == c \in UpperSet
IsLower(c) == c \in LowerSet

\* str.title(): a letter that follows no letter is put in upper case, every
\* other letter in lower case.
Title(s) ==
    LET title ==
            [i \in 1..Len(s) |->
                IF i > 1 /\ (IsUpper(s[i - 1]) \/ IsLower(s[i - 1]))
                THEN IF IsUpper(s[i])
                     THEN Lowers[CHOOSE k \in 1..Len(Uppers) : Uppers[k] = s[i]]
                     ELSE s[i]
                ELSE IF IsLower(s[i])
                     THEN Uppers[CHOOSE k \in 1..Len(Lowers) : Lowers[k] = s[i]]
                     ELSE s[i]]
    IN  SubSeq(title, 1, Len(s))

\* str(n) of a natural number
RECURSIVE Digits(_)
Digits(n) ==
    IF n < 10 THEN <<DigitChars[n + 1]>>
    ELSE Digits(n \div 10) \o <<DigitChars[(n % 10) + 1]>>

\* The entries of s at the positions in S, in order
PickAt(s, S) ==
    LET picked == [k \in 1..Cardinality(S) |->
                      s[CHOOSE i \in S : Cardinality({j \in S : j < i}) = k - 1]]
    IN  SubSeq(picked, 1, Cardinality(S))

k_no_such_file == <<"n", "o", " ", "s", "u", "c", "h", " ", "f", "i", "l", "e">>
k_syntax_error == <<"s", "y", "n", "t", "a", "x", " ", "e", "r", "r", "o", "r">>
k_unexpected_token == <<"u", "n", "e", "x", "p", "e", "c", "t", "e", "d", " ", "t", "o", "k", "e", "n">>
k_unrecognized_option == <<"u", "n", "r", "e", "c", "o", "g", "n", "i", "z", "e", "d", " ", "o", "p", "t", "i", "o", "n", " ">>
k_invalid_option == <<"i", "n", "v", "a", "l", "i", "d", " ", "o", "p", "t", "i", "o", "n", " ">>
s_bad_flag_ == <<"b", "a", "d", "_", "f", "l", "a", "g", "_">>
s_cmd_not_found_ == <<"c", "m", "d", "_", "n", "o", "t", "_", "f", "o", "u", "n", "d", "_">>
s_path_not_found_ == <<"p", "a", "t", "h", "_", "n", "o", "t", "_", "f", "o", "u", "n", "d", "_">>
s_permission_ == <<"p", "e", "r", "m", "i", "s", "s", "i", "o", "n", "_">>
s_syntax_ == <<"s", "y", "n", "t", "a", "x", "_">>
s_error_ == <<"e", "r", "r", "o", "r", "_">>
s_bash_and_chaining == <<"b", "a", "s", "h", "_", "a", "n", "d", "_", "c", "h", "a", "i", "n", "i", "n", "g">>
s_bash_echo_redirect == <<"b", "a", "s", "h", "_", "e", "c", "h", "o", "_", "r", "e", "d", "i", "r", "e", "c", "t">>
re_and_chaining == <<".", "*", "&", "&", ".", "*">>
re_echo_redirect == <<"^", "e", "c", "h", "o", "\\", "s", "+", ".", "*", ">">>
re_tail_word == <<"(", "\\", "s", "|", "$", ")">>
re_space_any == <<"\\", "s", "+", ".", "*">>
t_and == <<"&", "&">>

-----------------------------------------------------------------------------
(* hooks/error-curator.py: signatures *)

\* A value is computed once and named by writing The({e : x \in {v}}) for
\* "e, where x is v".
The(S) == CHOOSE x \in S : TRUE

\* The prefix of the error text that is hashed, and the modulus of the hash
HashCap == 100
HashModulus == 10000

\* The grave accent, which a string of this language cannot hold, is
\* written as its name.
GraveAccent == "grave"
FlagQuotes == {GraveAccent, "'", "\""}
FlagChars == WordChars \cup {"-"}

\* The group captured by  lead [`'"]?(-{1,2}[\w-]+)  matched at position i
\* of s, <<>> when it does not match there: after the lead and an optional
\* quote, the longest run of word characters and dashes, which has to begin
\* with a dash and to hold two characters at least.
FlagAt(lead, s, i) ==
    IF ~(/\ i + Len(lead) - 1 <= Len(s)
         /\ \A k \in 1..Len(lead) : s[i + k - 1] = lead[k])
    THEN <<>>
    ELSE LET j == i + Len(lead)
             q == IF j <= Len(s) /\ s[j] \in FlagQuotes THEN j + 1 ELSE j
             n == CHOOSE k \in 0..(Len(s) - q + 1) :
                      /\ \A d \in 0..(k - 1) : s[q + d] \in FlagChars
                      /\ q + k > Len(s) \/ s[q + k] \notin FlagChars
         IN  IF q <= Len(s) /\ s[q] = "-" /\ n >= 2
             THEN SubSeq(s, q, q + n - 1)
             ELSE <<>>

\* re.search(lead + r"[`'\"]?(-{1,2}[\w-]+)", s): group 1 of the leftmost
\* match, <<>> for no match
FlagSearch(lead, s) ==
    LET At == {i \in 1..Len(s) : FlagAt(lead, s, i) # <<>>}
    IN  IF At = {} THEN <<>>
        ELSE FlagAt(lead, s, CHOOSE i \in At : \A j \in At : i <= j)

structural_patterns ==
    << <<re_and_chaining, s_bash_and_chaining>>,
       <<re_echo_redirect, s_bash_echo_redirect>> >>

\* The loop over structural_patterns: the signature of the first pattern
\* found in the command, case ignored, <<>> for none
RECURSIVE StructuralFrom(_, _)
StructuralFrom(command, i) ==
    IF i > Len(structural_patterns) THEN <<>>
    ELSE IF ReSearch(structural_patterns[i][1], Lower(command))
    THEN structural_patterns[i][2]
    ELSE StructuralFrom(command, i + 1)

\* extract_error_signature: <<"ok", signature>>, <<"none">> or <<"raise">>.
\* h is hash() of the running process, a function of the text.
extract_error_signature(entry, h) ==
    IF Get(entry, "type", "") # "error" THEN <<"none">>
    ELSE
    LET tool_input == Get(entry, "input", Obj(<<>>))
    IN  IF tool_input.t # "obj" THEN <<"raise">>
        ELSE
        LET command == Get(tool_input.v, "command", Str(<<>>))
        IN  IF ~Truthy(command) THEN <<"none">>
            ELSE IF command.t # "str" THEN <<"raise">>
            ELSE The({
                LET flag_match  == FlagSearch(k_unrecognized_option, error_msg)
                    invalid_opt == FlagSearch(k_invalid_option, error_msg)
                    structural  == StructuralFrom(command.v, 1)
                IN  IF flag_match # <<>>
                    THEN <<"ok", s_bad_flag_ \o first_word \o <<"_">>
                                     \o flag_match>>
                    ELSE IF invalid_opt # <<>>
                    THEN <<"ok", s_bad_flag_ \o first_word \o <<"_">>
                                     \o invalid_opt>>
                    ELSE IF Contains(error_msg, k_command_not_found)
                            \/ Contains(error_msg, k_not_recognized)
                    THEN <<"ok", s_cmd_not_found_ \o first_word>>
                    ELSE IF Contains(error_msg, k_no_such_file)
                            \/ Contains(error_msg, k_cannot_find)
                    THEN <<"ok", s_path_not_found_ \o first_word>>
                    ELSE IF Contains(error_msg, k_permission_denied)
                            \/ Contains(error_msg, k_access_denied)
                            \/ Contains(error_msg, k_not_permitted)
                    THEN <<"ok", s_permission_ \o first_word>>
                    ELSE IF Contains(error_msg, k_syntax_error)
                            \/ Contains(error_msg, k_unexpected_token)
                    THEN <<"ok", s_syntax_ \o first_word>>
                    ELSE IF structural # <<>>
                    THEN <<"ok", structural>>
                    ELSE <<"ok", s_error_ \o first_word \o <<"_">>
                                     \o Digits(h[Take(error_msg, HashCap)]
                                                   % HashModulus)>>
                : error_msg \in {Lower(Get(entry, "error", <<>>))},
                  first_word \in {FirstWord(command.v)}})

-----------------------------------------------------------------------------
(* hooks/error-curator.py: pairing and grouping *)

NoFix == [type |-> "none"]

\* pair_errors_with_fixes: the dict as the sequence of its values, in the
\* order of its keys.  A key is an error id, placed where the id first
\* occurs; its value holds the last error entry with that id and the last
\* fix entry whose linked_error is that id.
pair_errors_with_fixes(entries) ==
    LET IsErr(i) == Get(entries[i], "type", "") = "error"
        IsFix(i) == /\ Get(entries[i], "type", "") = "fix"
                    /\ "linked_error" \in DOMAIN entries[i]
        Errs   == {i \in 1..Len(entries) : IsErr(i)}
        First  == {i \in Errs : \A j \in Errs :
                        entries[j].id = entries[i].id => i <= j}
        LastOf(i) == CHOOSE j \in Errs :
                        /\ entries[j].id = entries[i].id
                        /\ \A m \in Errs :
                               entries[m].id = entries[i].id => m <= j
        FixesOf(i) == {j \in 1..Len(entries) :
                          IsFix(j) /\ entries[j].linked_error = entries[i].id}
        FixOf(i) == IF FixesOf(i) = {} THEN NoFix
                    ELSE entries[CHOOSE j \in FixesOf(i) :
                                     \A m \in FixesOf(i) : m <= j]
    IN  PickAt([i \in 1..Len(entries) |->
                    IF i \in First
                    THEN [error |-> entries[LastOf(i)], fix |-> FixOf(i)]
                    ELSE NoFix],
               First)

\* analyze_error_patterns: <<"ok", groups>> with the groups in the order in
\* which their signatures first occur, or <<"raise">>.
analyze_error_patterns(entries, h) ==
    The({The({
        LET sig(i) == sigs[i]
            Kept   == {i \in 1..Len(paired) : sig(i)[1] = "ok"}
            First  == {i \in Kept : \A j \in Kept : sig(j) = sig(i) => i <= j}
            Group(i) ==
                LET members == {j \in Kept : sig(j) = sig(i)}
                    fixed   == {j \in members : paired[j].fix # NoFix}
                IN  [signature    |-> sig(i)[2],
                     errors       |-> PickAt([j \in 1..Len(paired) |->
                                                  paired[j].error], members),
                     commands     |-> PickAt([j \in 1..Len(paired) |->
                                                  IF j \in members
                                                  THEN paired[j].error.input.v.command
                                                  ELSE Null],
                                             members),
                     fixes        |-> PickAt([j \in 1..Len(paired) |->
                                                  paired[j].fix], fixed),
                     fix_commands |-> PickAt([j \in 1..Len(paired) |->
                                                  Get(paired[j].fix, "command",
                                                      Str(<<>>))], fixed)]
        IN  IF \E i \in 1..Len(paired) : sig(i)[1] = "raise" THEN <<"raise">>
            ELSE <<"ok", PickAt([i \in 1..Len(paired) |->
                                    IF i \in First THEN Group(i) ELSE NoFix],
                                First)>>
        : sigs \in {SubSeq([i \in 1..Len(paired) |->
                               extract_error_signature(paired[i].error, h)],
                           1, Len(paired))}})
        : paired \in {pair_errors_with_fixes(entries)}})

-----------------------------------------------------------------------------
(* hooks/error-curator.py: the generator *)

\* The ticks of the clock in a day: the date is the first ten characters of
\* a timestamp.
MsPerDay == 86400000

DateOf(timestamp) == timestamp \div MsPerDay

\* int((fix_count / error_count) * 100); the double arithmetic gives the
\* integer part of the exact quotient for every error_count below 50.
Confidence(fix_count, error_count) ==
    IF error_count > 0 THEN (100 * fix_count) \div error_count ELSE 0

\* (mutant) no signature is environmental
NeverEnvironmental(signature) == FALSE

\* signature.startswith("path_not_found_") or
\* signature.startswith("permission_")
IsEnvironmental(signature) ==
    StartsWith(signature, s_path_not_found_)
        \/ StartsWith(signature, s_permission_)

\* The fields every generated rule carries
LearnedRule(signature, name, match, message, hint, data) ==
    LET sample_fix  == IF data.fix_commands # <<>>
                       THEN data.fix_commands[1] ELSE Str(<<>>)
        error_count == Len(data.errors)
        fix_count   == Len(data.fixes)
    IN  Obj([id          |-> signature,
             name        |-> name,
             category    |-> "learned",
             tool        |-> "Bash",
             match       |-> match,
             message     |-> message,
             learned_fix |-> IF Truthy(sample_fix) THEN sample_fix.v ELSE hint,
             confidence  |-> Confidence(fix_count, error_count),
             error_count |-> error_count,
             fix_count   |-> fix_count,
             first_seen  |-> IF data.errors # <<>>
                             THEN DateOf(data.errors[1].timestamp) ELSE -1,
             last_seen   |-> IF data.errors # <<>>
                             THEN DateOf(data.errors[Len(data.errors)].timestamp)
                             ELSE -1,
             source      |-> "auto_learned"])

\* generate_learned_pattern: <<"ok", rule>> or <<"none">>
generate_learned_pattern(signature, data) ==
    LET sample_command == IF data.commands # <<>>
                          THEN data.commands[1].v ELSE <<>>
        error_count    == Len(data.errors)
    IN  IF StartsWith(signature, s_bad_flag_)
        THEN LET remainder    == SubSeq(signature, Len(s_bad_flag_) + 1,
                                        Len(signature))
                 cmd_and_flag == SplitOnce(remainder, "_")
                 cmd          == cmd_and_flag[1]
                 bad_flag     == IF Len(cmd_and_flag) > 1
                                 THEN cmd_and_flag[2] ELSE <<>>
             IN  <<"ok", LearnedRule(signature,
                     <<"Bad flag: ">> \o cmd \o <<" ">> \o bad_flag,
                     Obj([type |-> "regex",
                          pattern |-> <<"^">> \o cmd \o re_space_any
                                          \o ReEscape(bad_flag)]),
                     <<"BLOCKED: '">> \o bad_flag
                         \o <<"' is not a valid option for ">> \o cmd
                         \o <<".">>,
                     <<"Remove or replace '">> \o bad_flag \o <<"'">>,
                     data)>>
        ELSE IF StartsWith(signature, s_cmd_not_found_)
        THEN LET cmd == Replace(signature, s_cmd_not_found_, <<>>)
             IN  <<"ok", LearnedRule(signature,
                     <<"Command not found: ">> \o cmd,
                     Obj([type |-> "regex",
                          pattern |-> <<"^">> \o ReEscape(cmd)
                                          \o re_tail_word]),
                     <<"BLOCKED: '">> \o cmd
                         \o <<"' is not available on this system.">>,
                     <<"Use an alternative command or tool">>,
                     data)>>
        ELSE IF IsEnvironmental(signature) THEN <<"none">>
        ELSE IF signature = s_bash_and_chaining
        THEN <<"ok", LearnedRule(signature,
                 Title(Replace(signature, <<"_">>, <<" ">>)),
                 Obj([type |-> "contains", pattern |-> t_and]),
                 <<"BLOCKED: '&&' doesn't work here.">>,
                 <<"Check error log for alternatives">>,
                 data)>>
        ELSE IF signature = s_bash_echo_redirect
        THEN <<"ok", LearnedRule(signature,
                 Title(Replace(signature, <<"_">>, <<" ">>)),
                 Obj([type |-> "regex", pattern |-> re_echo_redirect]),
                 <<"BLOCKED: Use the Write tool instead.">>,
                 <<"Check error log for alternatives">>,
                 data)>>
        ELSE <<"ok", LearnedRule(signature,
                 Title(Replace(signature, <<"_">>, <<" ">>)),
                 Obj([type |-> "exact", pattern |-> Strip(sample_command)]),
                 <<"BLOCKED: This exact command has failed ">>
                     \o Digits(error_count) \o <<" time(s).">>,
                 <<"Check error log for details">>,
                 data)>>

-----------------------------------------------------------------------------
(* hooks/error-curator.py: the packs and the merge *)

\* The enabled packs and the threshold of the default configuration
DefaultEnabled == <<"common", "learned", "custom">>
DefaultThreshold == 2

\* load_config of the curator
CuratorLoadConfig(cfg) ==
    IF cfg.kind = "json" THEN cfg.json
    ELSE Obj([enabled_packs    |-> List(DefaultEnabled),
              auto_curate      |-> TRUE,
              curate_threshold |-> Num(DefaultThreshold),
              show_confidence  |-> TRUE,
              track_fixes      |-> TRUE])

\* load_pack: the JSON value of the pack file, or an empty pack when the
\* file is absent or not JSON.
load_pack(packs, pack_name) ==
    IF pack_name \in DOMAIN packs /\ packs[pack_name].kind = "json"
    THEN packs[pack_name].json
    ELSE Obj([pack |-> pack_name, patterns |-> <<>>])

\* save_pack
save_pack(packs, pack_name, data) == (pack_name :> File(data)) @@ packs

\* (mutant) no id is taken to exist
no_existing_pattern_ids(pack_data) == <<"ok", {}>>

\* get_existing_pattern_ids: <<"ok", ids>> or <<"raise">>
get_existing_pattern_ids(pack_data) ==
    IF pack_data.t # "obj" THEN <<"raise">>
    ELSE LET patterns == Get(pack_data.v, "patterns", <<>>)
         IN  IF \E i \in 1..Len(patterns) :
                    patterns[i].t # "obj" \/ "id" \notin DOMAIN patterns[i].v
             THEN <<"raise">>
             ELSE <<"ok", {patterns[i].v.id : i \in 1..Len(patterns)}>>

\* (mutant) the merge reads the default list of packs
AlwaysDefaultEnabled(config) == List(DefaultEnabled)

\* The enabled packs as merge_packs reads them
MergeEnabled(config) == Get(config.v, "enabled_packs", List(DefaultEnabled))

\* (mutant) a rule with an id is kept, seen before or not
KeepWithId(pattern_id, seen_ids) == pattern_id # <<>>

\* The test of the loop of merge_packs
KeepPattern(pattern_id, seen_ids) ==
    pattern_id # <<>> /\ pattern_id \notin seen_ids

\* The patterns of the enabled packs from the i-th on, in the order in
\* which the loops of merge_packs visit them
RECURSIVE EnabledPatterns(_, _, _)
EnabledPatterns(packs, enabled, i) ==
    IF i > Len(enabled) THEN <<>>
    ELSE Get(load_pack(packs, enabled[i]).v, "patterns", <<>>)
             \o EnabledPatterns(packs, enabled, i + 1)

\* The loops of merge_packs from the i-th pattern visited on
RECURSIVE MergeLoop(_, _, _, _)
MergeLoop(patterns, i, merged_patterns, seen_ids) ==
    IF i > Len(patterns) THEN merged_patterns
    ELSE LET pattern_id == Get(patterns[i].v, "id", <<>>)
         IN  IF KeepPattern(pattern_id, seen_ids)
             THEN MergeLoop(patterns, i + 1,
                            Append(merged_patterns, patterns[i]),
                            seen_ids \cup {pattern_id})
             ELSE MergeLoop(patterns, i + 1, merged_patterns, seen_ids)

\* merge_packs: <<"ok", active.json as written>>, or <<"raise">> with
\* nothing written.
merge_packs(cfgFile, packs, now) ==
    LET config == CuratorLoadConfig(cfgFile)
    IN  IF config.t # "obj" THEN <<"raise">>
        ELSE
        LET enabled == MergeEnabled(config)
        IN  IF enabled.t # "list" THEN <<"raise">>
            ELSE IF \E i \in 1..Len(enabled.v) :
                        load_pack(packs, enabled.v[i]).t # "obj"
            THEN <<"raise">>
            ELSE
            LET patterns == EnabledPatterns(packs, enabled.v, 1)
            IN  IF \E i \in 1..Len(patterns) : patterns[i].t # "obj"
                THEN <<"raise">>
                ELSE <<"ok",
                       File(Obj([description   |->
                                     <<"Merged active patterns from enabled packs. Auto-generated - do not edit directly.">>,
                                 generated_at  |-> now,
                                 enabled_packs |-> enabled,
                                 patterns      |->
                                     MergeLoop(patterns, 1, <<>>, {})]))>>

-----------------------------------------------------------------------------
(* hooks/error-curator.py: curation *)

\* What an invocation of the curator leaves: its exit status, the files
\* and the audit log.
Result(code, config, packs, active, curated) ==
    [code |-> code, config |-> config, packs |-> packs, active |-> active,
     curated |-> curated]

\* (mutant) one occurrence short of the threshold is enough
MeetsThresholdLessOne(count, threshold) == count >= threshold - 1

\* len(data["errors"]) >= threshold
MeetsThreshold(count, threshold) == count >= threshold

\* The rules generated for the groups at the positions in Added, in order
GeneratedRules(groups, Added) ==
    PickAt([i \in 1..Len(groups) |->
                IF i \in Added
                THEN generate_learned_pattern(groups[i].signature,
                                              groups[i])[2]
                ELSE Null],
           Added)

\* The signatures of the groups at the positions in Added, in order
AddedSignatures(groups, Added) ==
    PickAt([i \in 1..Len(groups) |-> groups[i].signature], Added)

\* (mutant) the new rules are put before the rules of the pack
SaveLearnedInFront(packs, learned, rules) ==
    save_pack(packs, "learned",
              Obj(SetKey(learned.v, "patterns", rules \o learned.v.patterns)))

\* learned["patterns"].append(pattern) for every rule, then save_pack
SaveLearned(packs, learned, rules) ==
    save_pack(packs, "learned",
              Obj(SetKey(learned.v, "patterns", learned.v.patterns \o rules)))

\* auto_curate
auto_curate(cfgFile, packs, active, curated, entries, now, h) ==
    LET config      == CuratorLoadConfig(cfgFile)
        Leave(code) == Result(code, cfgFile, packs, active, curated)
    IN  IF config.t # "obj" THEN Leave(1)
        ELSE IF ~Get(config.v, "auto_curate", TRUE) THEN Leave(0)
        ELSE IF entries = <<>> THEN Leave(0)
        ELSE
        LET threshold == Get(config.v, "curate_threshold",
                             Num(DefaultThreshold))
            learned   == load_pack(packs, "learned")
            existing  == get_existing_pattern_ids(learned)
        IN  The({
            IF existing[1] = "raise" \/ grouped[1] = "raise" THEN Leave(1)
            ELSE
            LET groups == grouped[2]
                New    == {i \in 1..Len(groups) :
                               groups[i].signature \notin existing[2]}
            IN  IF New # {} /\ threshold.t # "num" THEN Leave(1)
                ELSE The({
                    IF Added = {} THEN Leave(0)
                    ELSE IF "patterns" \notin DOMAIN learned.v THEN Leave(1)
                    ELSE The({The({
                        IF merged[1] = "raise"
                        THEN Result(1, cfgFile, saved, active, curated)
                        ELSE Result(0, cfgFile, saved, merged[2],
                                 Append(curated,
                                     [at    |-> now,
                                      added |-> AddedSignatures(groups,
                                                                Added)]))
                        : merged \in {merge_packs(cfgFile, saved, now)}})
                        : saved \in {SaveLearned(packs, learned,
                                         GeneratedRules(groups, Added))}})
                    : Added \in {{i \in New :
                          /\ MeetsThreshold(Len(groups[i].errors), threshold.v)
                          /\ generate_learned_pattern(
                                 groups[i].signature, groups[i])[1] = "ok"}}})
            : grouped \in {analyze_error_patterns(entries, h)}})

\* add_all_patterns
add_all_patterns(cfgFile, packs, active, curated, entries, now, h) ==
    LET Leave(code) == Result(code, cfgFile, packs, active, curated)
        learned     == load_pack(packs, "learned")
        existing    == get_existing_pattern_ids(learned)
    IN  The({
        IF existing[1] = "raise" \/ grouped[1] = "raise" THEN Leave(1)
        ELSE
        LET groups == grouped[2]
        IN  The({
            IF Added = {} THEN Leave(0)
            ELSE IF "patterns" \notin DOMAIN learned.v THEN Leave(1)
            ELSE The({The({
                IF merged[1] = "raise"
                THEN Result(1, cfgFile, saved, active, curated)
                ELSE Result(0, cfgFile, saved, merged[2], curated)
                : merged \in {merge_packs(cfgFile, saved, now)}})
                : saved \in {SaveLearned(packs, learned,
                                 GeneratedRules(groups, Added))}})
            : Added \in {{i \in 1..Len(groups) :
                  /\ groups[i].signature \notin existing[2]
                  /\ generate_learned_pattern(
                         groups[i].signature, groups[i])[1] = "ok"}}})
        : grouped \in {analyze_error_patterns(entries, h)}})

\* add_pattern
add_pattern(signature, cfgFile, packs, active, curated, entries, now, h) ==
    LET Leave(code) == Result(code, cfgFile, packs, active, curated)
        learned     == load_pack(packs, "learned")
        existing    == get_existing_pattern_ids(learned)
    IN  The({
        IF existing[1] = "raise" \/ grouped[1] = "raise" THEN Leave(1)
        ELSE
        LET groups == grouped[2]
            Named  == {i \in 1..Len(groups) : groups[i].signature = signature}
        IN  IF signature \in existing[2] THEN Leave(0)
            ELSE The({
                IF Added = {} THEN Leave(0)
                ELSE IF "patterns" \notin DOMAIN learned.v THEN Leave(1)
                ELSE The({The({
                    IF merged[1] = "raise"
                    THEN Result(1, cfgFile, saved, active, curated)
                    ELSE Result(0, cfgFile, saved, merged[2], curated)
                    : merged \in {merge_packs(cfgFile, saved, now)}})
                    : saved \in {SaveLearned(packs, learned,
                                     GeneratedRules(groups, Added))}})
                : Added \in {{i \in Named :
                      generate_learned_pattern(signature,
                                               groups[i])[1] = "ok"}}})
        : grouped \in {analyze_error_patterns(entries, h)}})

\* (mutant) the review adds what it proposes
review_adding_all(cfgFile, packs, active, curated, entries, now, h) ==
    add_all_patterns(cfgFile, packs, active, curated, entries, now, h)

\* manual_review: the report is printed and nothing is written; the exit
\* status is 1 when reading the learned pack or grouping the log raises.
manual_review(cfgFile, packs, active, curated, entries, now, h) ==
    LET Leave(code) == Result(code, cfgFile, packs, active, curated)
    IN  IF entries = <<>> THEN Leave(0)
        ELSE IF get_existing_pattern_ids(load_pack(packs, "learned"))[1]
                    = "raise"
        THEN Leave(1)
        ELSE IF analyze_error_patterns(entries, h)[1] = "raise" THEN Leave(1)
        ELSE Leave(0)

\* get_available_packs: the names of the pack files there are
get_available_packs(packs) ==
    {pack_name \in DOMAIN packs : packs[pack_name].kind # "absent"}

\* save_config followed by merge_packs, as enable_pack and disable_pack end
SaveConfigAndMerge(config, enabled, packs, active, curated, now) ==
    LET saved  == File(Obj(SetKey(config.v, "enabled_packs", List(enabled))))
        merged == merge_packs(saved, packs, now)
    IN  IF merged[1] = "raise"
        THEN Result(1, saved, packs, active, curated)
        ELSE Result(0, saved, packs, merged[2], curated)

\* enable_pack
enable_pack(pack_name, cfgFile, packs, active, curated, now) ==
    LET Leave(code) == Result(code, cfgFile, packs, active, curated)
        config      == CuratorLoadConfig(cfgFile)
    IN  IF pack_name \notin get_available_packs(packs) THEN Leave(0)
        ELSE IF config.t # "obj" THEN Leave(1)
        ELSE
        LET enabled == Get(config.v, "enabled_packs", List(<<>>))
        IN  IF enabled.t # "list" THEN Leave(1)
            ELSE IF \E i \in 1..Len(enabled.v) : enabled.v[i] = pack_name
            THEN Leave(0)
            ELSE SaveConfigAndMerge(config, Append(enabled.v, pack_name),
                                    packs, active, curated, now)

\* list.remove: the list without the first occurrence of x
Remove(l, x) ==
    LET k == CHOOSE i \in 1..Len(l) :
                 l[i] = x /\ \A j \in 1..(i - 1) : l[j] # x
    IN  SubSeq(l, 1, k - 1) \o SubSeq(l, k + 1, Len(l))

\* disable_pack
disable_pack(pack_name, cfgFile, packs, active, curated, now) ==
    LET Leave(code) == Result(code, cfgFile, packs, active, curated)
        config      == CuratorLoadConfig(cfgFile)
    IN  IF config.t # "obj" THEN Leave(1)
        ELSE
        LET enabled == Get(config.v, "enabled_packs", List(<<>>))
        IN  IF enabled.t # "list" THEN Leave(1)
            ELSE IF \A i \in 1..Len(enabled.v) : enabled.v[i] # pack_name
            THEN Leave(0)
            ELSE SaveConfigAndMerge(config, Remove(enabled.v, pack_name),
                                    packs, active, curated, now)

\* (mutant) --merge writes the merged rules after those active.json held
merge_mode_appending(cfgFile, packs, active, curated, now) ==
    LET merged == merge_packs(cfgFile, packs, now)
        before == IF active.kind = "json" THEN active.json.v.patterns
                  ELSE <<>>
    IN  IF merged[1] = "raise"
        THEN Result(1, cfgFile, packs, active, curated)
        ELSE Result(0, cfgFile, packs,
                    File(Obj(SetKey(merged[2].json.v, "patterns",
                                    before \o merged[2].json.v.patterns))),
                    curated)

\* main of the curator with --merge
merge_mode(cfgFile, packs, active, curated, now) ==
    LET merged == merge_packs(cfgFile, packs, now)
    IN  IF merged[1] = "raise"
        THEN Result(1, cfgFile, packs, active, curated)
        ELSE Result(0, cfgFile, packs, merged[2], curated)

-----------------------------------------------------------------------------
(* The curator at work: failures are logged and fixed, rules are learned, *)
(* packs are enabled and disabled                                         *)

t_boom == <<"b", "o", "o", "m">>
t_Permission_denied == <<"P", "e", "r", "m", "i", "s", "s", "i", "o", "n", " ", "d", "e", "n", "i", "e", "d">>
t_ls_no_such_file == <<"l", "s", ":", " ", "N", "o", " ", "s", "u", "c", "h", " ", "f", "i", "l", "e">>

\* A failure report of session s1 for a Bash command
Failure(command, error) ==
    File(Obj([tool_name  |-> t_Bash,
              tool_input |-> Obj([command |-> Str(command)]),
              error      |-> Str(error),
              session_id |-> t_s1,
              cwd        |-> t_w_p]))

CurateFailures ==
    {Failure(t_rm_x, t_rm_not_found),          \* cmd_not_found_rm
     Failure(t_ls, t_ls_no_such_file),         \* path_not_found_ls
     Failure(t_rm_x, t_Permission_denied)}     \* permission_rm

CurateFixes ==
    {FixReport(t_s1, t_Bash, Obj([command |-> Str(t_del_x)]), Str(t_ok))}

\* The texts the curator hashes, and what hash() gives in one process or
\* another; the hash of the empty text is 0 in every process.
HashValues == {7, HashModulus + 8}

\* The texts the curator hashes when it reads a log
HashedTexts(log) ==
    {Take(Lower(log[i].error), HashCap) :
        i \in {k \in 1..Len(log) : /\ log[k].type = "error"
                                    /\ log[k].error = t_boom}}

\* hash() of one process or another, on the texts it is called on; the
\* hash of the empty text is 0 in every process.
HashSeeds(log) ==
    {h \in [HashedTexts(log) -> HashValues] :
        <<>> \in HashedTexts(log) => h[<<>>] = 0}

rule_no_rm_exact ==
    Obj([id |-> <<"n", "o", "_", "r", "m">>,
         match |-> Obj([type |-> "exact", pattern |-> t_rm_x]),
         message |-> <<"BLOCKED: rm x">>])

rule_custom_rm ==
    Obj([id |-> s_cmd_not_found_ \o t_rm,
         match |-> Obj([type |-> "contains", pattern |-> t_rm]),
         message |-> <<"BLOCKED: no rm here">>])

CommonPack ==
    File(Obj([pack |-> "common",
              description |-> <<"Common patterns">>,
              patterns |-> <<rule_contains_rm, rule_exact_ls,
                             rule_no_rm_exact>>]))

rule_custom_permission ==
    Obj([id |-> s_permission_ \o t_rm,
         match |-> Obj([type |-> "exact", pattern |-> t_rm]),
         message |-> <<"BLOCKED: rm needs a target">>])

CustomPack ==
    File(Obj([pack |-> "custom",
              description |-> <<"Custom patterns">>,
              patterns |-> <<rule_no_rm_exact, rule_custom_rm,
                             rule_custom_permission>>]))

PackNames == {"common", "learned", "custom"}

CurateConfigFiles ==
    {Absent,
     File(Obj([enabled_packs    |-> List(<<"learned", "custom">>),
               curate_threshold |-> Num(1)]))}

InitCurate ==
    /\ configFile \in CurateConfigFiles
    /\ packFiles = [common |-> CommonPack, learned |-> Absent,
                    custom |-> CustomPack]
    /\ activeFile = merge_packs(configFile, packFiles, 0)[2]
    /\ allowlistFile = Absent
    /\ legacyFile = Absent
    /\ request = Absent
    /\ exitCode = NotRun
    /\ stderr = NoOutput
    /\ errorsFile = <<>>
    /\ clock = 0
    /\ hook = "none"
    /\ logBefore = <<>>
    /\ curatedLog = <<>>
    /\ hashSeed = <<>>
    /\ tracker = Idle
    /\ diskBefore = Disk(configFile, packFiles, activeFile)

\* The command line of the curator: sys.argv[1] and sys.argv[2]
Argv(mode, arg) == [kind |-> "argv", mode |-> mode, arg |-> arg]

\* The curator ran in a mode, with an argument, and left out.
CuratorRan(mode, arg, out, now) ==
    /\ configFile' = out.config
    /\ packFiles' = out.packs
    /\ activeFile' = out.active
    /\ curatedLog' = out.curated
    /\ exitCode' = out.code
    /\ clock' = now
    /\ hook' = mode
    /\ request' = Argv(mode, arg)
    /\ logBefore' = errorsFile
    /\ diskBefore' = Disk(configFile, packFiles, activeFile)
    /\ UNCHANGED <<allowlistFile, legacyFile, stderr, errorsFile, tracker>>

\* Every hook runs a millisecond after the one before it.
LaterTick == {1}

LogFailure == LogErrorFrom(CurateFailures, LaterTick)

LogFix == TrackFixFrom(CurateFixes, LaterTick)

\* The SessionEnd hook: error-curator.py --auto.  The curator reads the
\* clock where the last hook left it.
AutoCurate ==
    \E h \in HashSeeds(errorsFile) :
        \E out \in {auto_curate(configFile, packFiles, activeFile,
                                curatedLog, errorsFile, clock, h)} :
            /\ hashSeed' = h
            /\ CuratorRan("--auto", <<>>, out, clock)

\* error-curator.py --add-all
AddAll ==
    \E h \in HashSeeds(errorsFile) :
        \E out \in {add_all_patterns(configFile, packFiles, activeFile,
                                     curatedLog, errorsFile, clock, h)} :
            /\ hashSeed' = h
            /\ CuratorRan("--add-all", <<>>, out, clock)

\* The signatures the operator may name: those of the log, and one more
SignaturesToAdd(h) ==
    UNION {{grouped[2][i].signature : i \in 1..Len(grouped[2])} :
              grouped \in {analyze_error_patterns(errorsFile, h)}}
        \cup {s_bash_and_chaining}

\* error-curator.py --add <signature>
AddOne ==
    \E h \in HashSeeds(errorsFile) :
        \E signature \in SignaturesToAdd(h) :
            \E out \in {add_pattern(signature, configFile, packFiles,
                                    activeFile, curatedLog, errorsFile,
                                    clock, h)} :
                /\ hashSeed' = h
                /\ CuratorRan("--add", signature, out, clock)

\* error-curator.py --review
Review ==
    \E h \in HashSeeds(errorsFile) :
        \E out \in {manual_review(configFile, packFiles, activeFile,
                                  curatedLog, errorsFile, clock, h)} :
            /\ hashSeed' = h
            /\ CuratorRan("--review", <<>>, out, clock)

\* error-curator.py --enable <pack>, the pack named being one of names
EnableAmong(names) ==
    \E pack_name \in names :
        \E out \in {enable_pack(pack_name, configFile, packFiles,
                                activeFile, curatedLog, clock)} :
            /\ CuratorRan("--enable", pack_name, out, clock)
            /\ UNCHANGED hashSeed

EnablePack == EnableAmong(PackNames)

\* error-curator.py --disable <pack>, the pack named being one of names
DisableAmong(names) ==
    \E pack_name \in names :
        \E out \in {disable_pack(pack_name, configFile, packFiles,
                                 activeFile, curatedLog, clock)} :
            /\ CuratorRan("--disable", pack_name, out, clock)
            /\ UNCHANGED hashSeed

DisablePack == DisableAmong(PackNames)

\* error-curator.py --merge
Merge ==
    \E out \in {merge_mode(configFile, packFiles, activeFile, curatedLog,
                           clock)} :
        /\ CuratorRan("--merge", <<>>, out, clock)
        /\ UNCHANGED hashSeed

NextCurate ==
    \/ LogFailure \/ LogFix
    \/ AutoCurate \/ AddAll \/ AddOne

SpecCurate == InitCurate /\ [][NextCurate]_vars

-----------------------------------------------------------------------------
(* Automatic curation at work: failures are logged and fixed, and the     *)
(* SessionEnd hook promotes the groups that recur                         *)

AutoFailures ==
    {Failure(t_rm_x, t_rm_not_found),          \* cmd_not_found_rm
     Failure(t_ls, t_ls_no_such_file),         \* path_not_found_ls
     Failure(t_rm_x, t_boom)}                  \* error_rm_<hash>

AutoConfigFiles ==
    {Absent,
     File(Obj([curate_threshold |-> Num(3)])),
     File(Obj([auto_curate |-> FALSE]))}

InitAuto ==
    /\ configFile \in AutoConfigFiles
    /\ packFiles = [common |-> CommonPack, learned |-> Absent,
                    custom |-> Absent]
    /\ activeFile = merge_packs(configFile, packFiles, 0)[2]
    /\ allowlistFile = Absent
    /\ legacyFile = Absent
    /\ request = Absent
    /\ exitCode = NotRun
    /\ stderr = NoOutput
    /\ errorsFile = <<>>
    /\ clock = 0
    /\ hook = "none"
    /\ logBefore = <<>>
    /\ curatedLog = <<>>
    /\ hashSeed = <<>>
    /\ tracker = Idle
    /\ diskBefore = Disk(configFile, packFiles, activeFile)

\* Here the hooks may run within one millisecond of each other.
LogAutoFailure == LogErrorFrom(AutoFailures, Ticks)

LogAutoFix == TrackFixFrom(CurateFixes, Ticks)

NextAuto == LogAutoFailure \/ LogAutoFix \/ AutoCurate

SpecAuto == InitAuto /\ [][NextAuto]_vars

-----------------------------------------------------------------------------
(* The packs at work: packs are enabled and disabled, merged, and gain    *)
(* learned rules                                                          *)

PackFailures == {Failure(t_rm_x, t_rm_not_found)}

PackConfigFiles ==
    {Absent,
     File(Obj([enabled_packs    |-> List(<<"custom", "common">>),
               curate_threshold |-> Num(1)])),
     File(Obj([auto_curate |-> FALSE]))}

InitPacks ==
    /\ configFile \in PackConfigFiles
    /\ packFiles \in {[common |-> CommonPack, learned |-> Absent,
                       custom |-> c] : c \in {Absent, CustomPack}}
    /\ activeFile = merge_packs(configFile, packFiles, 0)[2]
    /\ allowlistFile = Absent
    /\ legacyFile = Absent
    /\ request = Absent
    /\ exitCode = NotRun
    /\ stderr = NoOutput
    /\ errorsFile = <<>>
    /\ clock = 0
    /\ hook = "none"
    /\ logBefore = <<>>
    /\ curatedLog = <<>>
    /\ hashSeed = <<>>
    /\ tracker = Idle
    /\ diskBefore = Disk(configFile, packFiles, activeFile)

LogPackFailure == LogErrorFrom(PackFailures, LaterTick)

NextPacks ==
    \/ LogPackFailure
    \/ AutoCurate \/ AddAll \/ AddOne \/ Review
    \/ EnablePack \/ DisablePack \/ Merge

SpecPacks == InitPacks /\ [][NextPacks]_vars

-----------------------------------------------------------------------------
(* manage-packs.py: the interactive pack manager *)

\* load_config of the manager
ManagerLoadConfig(cfg) ==
    IF cfg.kind = "json" THEN cfg.json
    ELSE Obj([enabled_packs |-> List(DefaultEnabled)])

\* load_pack of the manager
manager_load_pack(packs, name) ==
    IF name \in DOMAIN packs /\ packs[name].kind = "json"
    THEN packs[name].json
    ELSE Obj([patterns |-> <<>>])

\* p.get("id") of a rule without an id: None, which no text equals
NoId == <<"None">>

RECURSIVE ManagerEnabledPatterns(_, _, _)
ManagerEnabledPatterns(packs, enabled, i) ==
    IF i > Len(enabled) THEN <<>>
    ELSE Get(manager_load_pack(packs, enabled[i]).v, "patterns", <<>>)
             \o ManagerEnabledPatterns(packs, enabled, i + 1)

\* The loops of the manager's merge_packs from the i-th pattern visited on
RECURSIVE ManagerMergeLoop(_, _, _, _)
ManagerMergeLoop(patterns, i, merged, seen) ==
    IF i > Len(patterns) THEN merged
    ELSE LET id == Get(patterns[i].v, "id", NoId)
         IN  IF id \notin seen
             THEN ManagerMergeLoop(patterns, i + 1,
                                   Append(merged, patterns[i]),
                                   seen \cup {id})
             ELSE ManagerMergeLoop(patterns, i + 1, merged, seen)

\* merge_packs of the manager: <<"ok", active.json as written>>, or
\* <<"raise">> with nothing written.
manager_merge_packs(enabled, packs, now) ==
    IF \E i \in 1..Len(enabled) :
           manager_load_pack(packs, enabled[i]).t # "obj"
    THEN <<"raise">>
    ELSE LET patterns == ManagerEnabledPatterns(packs, enabled, 1)
         IN  IF \E i \in 1..Len(patterns) : patterns[i].t # "obj"
             THEN <<"raise">>
             ELSE <<"ok",
                    File(Obj([description   |-> <<"Merged active patterns">>,
                              generated_at  |-> now,
                              enabled_packs |-> List(enabled),
                              patterns      |->
                                  ManagerMergeLoop(patterns, 1, <<>>, {})]))>>

\* One turn of the loop of main with a number typed: the pack of that
\* number is taken out of the enabled packs when it is among them and put
\* at their end when it is not, the configuration is saved and the packs
\* are merged.  An exception ends the program.
manager_toggle(name, cfgFile, packs, active, curated, now) ==
    LET Leave(code) == Result(code, cfgFile, packs, active, curated)
        config      == ManagerLoadConfig(cfgFile)
    IN  IF config.t # "obj" THEN Leave(1)
        ELSE
        LET enabled == Get(config.v, "enabled_packs", List(<<>>))
        IN  IF enabled.t # "list" THEN Leave(1)
            ELSE IF \E n \in get_available_packs(packs) :
                        manager_load_pack(packs, n).t # "obj"
            THEN Leave(1)
            ELSE IF \E i \in 1..Len(enabled.v) :
                        manager_load_pack(packs, enabled.v[i]).t # "obj"
            THEN Leave(1)
            ELSE
            LET toggled == IF \E i \in 1..Len(enabled.v) : enabled.v[i] = name
                           THEN Remove(enabled.v, name)
                           ELSE Append(enabled.v, name)
                saved   == File(Obj(SetKey(config.v, "enabled_packs",
                                           List(toggled))))
                merged  == manager_merge_packs(toggled, packs, now)
            IN  IF merged[1] = "raise"
                THEN Result(1, saved, packs, active, curated)
                ELSE Result(0, saved, packs, merged[2], curated)

rule_without_id ==
    Obj([match |-> Obj([type |-> "contains", pattern |-> t_rm]),
         message |-> <<"BLOCKED: rm (no id)">>])

rule_empty_id ==
    Obj([id |-> <<>>,
         match |-> Obj([type |-> "exact", pattern |-> t_ls]),
         message |-> <<"BLOCKED: ls (empty id)">>])

IdlessPack ==
    File(Obj([pack |-> "custom",
              patterns |-> <<rule_without_id, rule_no_rm_exact,
                             rule_empty_id>>]))

ExtraPack ==
    File(Obj([pack |-> "extra",
              patterns |-> <<rule_no_rm_exact, rule_custom_permission>>]))

ManagedPackNames == {"common", "custom", "extra"}

InitManage ==
    /\ configFile \in PackConfigFiles
    /\ packFiles \in {[common |-> CommonPack, custom |-> c, extra |-> e] :
                         c \in {CustomPack, IdlessPack},
                         e \in {Absent, ExtraPack}}
    /\ activeFile = merge_packs(configFile, packFiles, 0)[2]
    /\ allowlistFile = Absent
    /\ legacyFile = Absent
    /\ request = Absent
    /\ exitCode = NotRun
    /\ stderr = NoOutput
    /\ errorsFile = <<>>
    /\ clock = 0
    /\ hook = "none"
    /\ logBefore = <<>>
    /\ curatedLog = <<>>
    /\ hashSeed = <<>>
    /\ tracker = Idle
    /\ diskBefore = Disk(configFile, packFiles, activeFile)

\* manage-packs.py: a number is typed at the menu
ManagerToggle ==
    \E name \in get_available_packs(packFiles) :
        \E out \in {manager_toggle(name, configFile, packFiles, activeFile,
                                   curatedLog, clock)} :
            /\ CuratorRan("manage-packs", name, out, clock)
            /\ UNCHANGED hashSeed

NextManage ==
    \/ ManagerToggle
    \/ EnableAmong(ManagedPackNames)
    \/ DisableAmong(ManagedPackNames)
    \/ Merge

SpecManage == InitManage /\ [][NextManage]_vars

-----------------------------------------------------------------------------
(* Claims about the packs and the merge, checked under SpecPacks *)

\* The enabled packs, in order, as config.json names them; the three
\* default packs when it names none.
EnabledOrder(cfgFile) ==
    IF cfgFile.kind = "json" /\ "enabled_packs" \in DOMAIN cfgFile.json.v
    THEN cfgFile.json.v.enabled_packs.v
    ELSE <<"common", "learned", "custom">>

\* The rules of a pack on disk
RulesOfPack(packs, pack_name) ==
    IF /\ pack_name \in DOMAIN packs
       /\ packs[pack_name].kind = "json"
       /\ "patterns" \in DOMAIN packs[pack_name].json.v
    THEN packs[pack_name].json.v.patterns
    ELSE <<>>

\* The rules of the packs named, one pack after the other
RECURSIVE Concatenation(_, _)
Concatenation(packs, names) ==
    IF names = <<>> THEN <<>>
    ELSE RulesOfPack(packs, Head(names)) \o Concatenation(packs, Tail(names))

\* A rule list without the rules whose id an earlier rule carries
DeduplicatedById(rules) ==
    PickAt(rules, {i \in 1..Len(rules) :
                      \A j \in 1..(i - 1) : rules[j].v.id # rules[i].v.id})

\* The rule list of active.json is the id-deduplicated concatenation of the
\* enabled packs' rules, in the enabled order.
ActiveAgrees(active, cfgFile, packs) ==
    /\ active.kind = "json"
    /\ active.json.t = "obj"
    /\ "patterns" \in DOMAIN active.json.v
    /\ active.json.v.patterns =
           DeduplicatedById(Concatenation(packs, EnabledOrder(cfgFile)))

PackOperations ==
    {"--enable", "--disable", "--add", "--add-all", "--auto", "--merge"}

\* C7: the active rule set never diverges from the merge function.  When
\* enable-pack, disable-pack, add-one, add-all, automatic curation or merge
\* has completed, having found an active rule list equal to the
\* id-deduplicated concatenation of the enabled packs' rules, the active rule
\* list is again that of the packs now on disk in the enabled order now
\* configured.
C7_ActiveNeverDiverges ==
    (/\ hook \in PackOperations
     /\ exitCode = 0
     /\ ActiveAgrees(diskBefore.active, diskBefore.config, diskBefore.packs))
        => ActiveAgrees(activeFile, configFile, packFiles)

\* C7 (witness): enabling a pack has changed the active rule list, with a
\* learned rule in the learned pack.
C7_Witness ==
    /\ hook = "--enable"
    /\ exitCode = 0
    /\ ActiveAgrees(diskBefore.active, diskBefore.config, diskBefore.packs)
    /\ activeFile.json.v.patterns # diskBefore.active.json.v.patterns
    /\ configFile # diskBefore.config
    /\ RulesOfPack(packFiles, "learned") # <<>>

ActiveRules == activeFile.json.v.patterns

\* C8: merge deduplication.  The active rule set never holds two rules with
\* one id, and each of its rules is the first rule with its id in the
\* concatenation of the enabled packs: that of the pack first in the enabled
\* order, and the first occurrence within that pack.
C8_MergeDeduplicates ==
    activeFile.kind = "json" =>
        LET rules == Concatenation(packFiles, EnabledOrder(configFile))
        IN  /\ \A i, j \in 1..Len(ActiveRules) :
                   ActiveRules[i].v.id = ActiveRules[j].v.id => i = j
            /\ \A i \in 1..Len(ActiveRules) :
                   \E k \in 1..Len(rules) :
                       /\ rules[k] = ActiveRules[i]
                       /\ \A j \in 1..(k - 1) :
                              rules[j].v.id # ActiveRules[i].v.id

\* C8 (witness): after a pack was enabled, two enabled packs hold different
\* rules with one id, the custom pack comes first, and the active rule set
\* holds the rule of the custom pack and not the other.
C8_Witness ==
    /\ hook = "--enable"
    /\ exitCode = 0
    /\ activeFile # diskBefore.active
    /\ LET enabled == EnabledOrder(configFile)
       IN  \E m, n \in 1..Len(enabled) :
               /\ m < n
               /\ enabled[m] = "custom"
               /\ LET first == RulesOfPack(packFiles, enabled[m])
                      later == RulesOfPack(packFiles, enabled[n])
                  IN  \E i \in 1..Len(first), j \in 1..Len(later) :
                          /\ first[i].v.id = later[j].v.id
                          /\ first[i] # later[j]
                          /\ \E k \in 1..Len(ActiveRules) :
                                 ActiveRules[k] = first[i]
                          /\ \A k \in 1..Len(ActiveRules) :
                                 ActiveRules[k] # later[j]

-----------------------------------------------------------------------------
(* Claims about curation, checked under SpecAuto and SpecCurate *)

\* The number of ErrorEvents of the log whose signature is the one given,
\* in a process whose hash() is h
GroupCount(log, signature, h) ==
    Cardinality({i \in ErrorEvents(log) :
                    extract_error_signature(log[i], h) = <<"ok", signature>>})

\* curate_threshold as config.json sets it, 2 when it does not
Threshold(cfgFile) ==
    IF cfgFile.kind = "json" /\ "curate_threshold" \in DOMAIN cfgFile.json.v
    THEN cfgFile.json.v.curate_threshold.v
    ELSE 2

RuleIds(rules) == {rules[i].v.id : i \in 1..Len(rules)}

LearnedIds(packs) == RuleIds(RulesOfPack(packs, "learned"))

\* The ids of the rules the learned pack gained in the last invocation
AddedByLastRun == LearnedIds(packFiles) \ LearnedIds(diskBefore.packs)

\* The signatures of the ErrorEvents of the log, in a process whose hash()
\* is h
LoggedSignatures(log, h) ==
    {extract_error_signature(log[i], h)[2] : i \in ErrorEvents(log)}

\* C9: threshold gating.  Automatic curation adds a rule for signature G to
\* the learned pack only if the number of ErrorEvents grouped under G in the
\* log is at least curate_threshold; a group with one occurrence less is
\* never added.
C9_ThresholdGating ==
    hook = "--auto" =>
        \A G \in AddedByLastRun :
            GroupCount(errorsFile, G, hashSeed)
                >= Threshold(diskBefore.config)

\* C9 (witness): automatic curation has added a rule for a group that met
\* the threshold and none for a group, not environmental, with one
\* occurrence less.
C9_Witness ==
    /\ hook = "--auto"
    /\ exitCode = 0
    /\ \E G \in AddedByLastRun :
           GroupCount(errorsFile, G, hashSeed) >= Threshold(diskBefore.config)
    /\ \E G \in LoggedSignatures(errorsFile, hashSeed) :
           /\ ~StartsWith(G, s_path_not_found_)
           /\ ~StartsWith(G, s_permission_)
           /\ GroupCount(errorsFile, G, hashSeed)
                  = Threshold(diskBefore.config) - 1
           /\ G \notin LearnedIds(packFiles)

\* The ids that begin with path_not_found_ or permission_
EnvironmentalIds(ids) ==
    {id \in ids : \/ StartsWith(id, s_path_not_found_)
                  \/ StartsWith(id, s_permission_)}

\* Signatures that begin with path_not_found_ or permission_
EnvironmentalSignatures ==
    {prefix \o word :
        prefix \in {s_path_not_found_, s_permission_},
        word \in {<<>>, t_rm, t_ls, s_bad_flag_ \o t_rm,
                  s_cmd_not_found_ \o t_rm, s_bash_and_chaining}}

\* The groups of the log as the last curator process saw them, and a group
\* without events
GroupsSeen ==
    LET grouped == analyze_error_patterns(errorsFile, hashSeed)[2]
    IN  {grouped[i] : i \in 1..Len(grouped)}
            \cup {[signature |-> <<>>, errors |-> <<>>, commands |-> <<>>,
                   fixes |-> <<>>, fix_commands |-> <<>>]}

CurationOperations == {"--auto", "--add-all", "--add"}

\* C10: environmental exclusion.  The generator returns none for every
\* signature that begins with path_not_found_ or permission_, whatever the
\* group, and after automatic curation, add-all or add-one neither the
\* learned pack nor the active rule set has gained a rule whose id begins
\* with path_not_found_ or permission_, however often such errors recur.
C10_EnvironmentalExclusion ==
    hook \in CurationOperations =>
        /\ \A signature \in EnvironmentalSignatures
                   \cup EnvironmentalIds(LoggedSignatures(errorsFile, hashSeed)) :
               \A data \in GroupsSeen :
                   generate_learned_pattern(signature, data) = <<"none">>
        /\ EnvironmentalIds(LearnedIds(packFiles))
               \subseteq EnvironmentalIds(LearnedIds(diskBefore.packs))
        /\ EnvironmentalIds(RuleIds(ActiveRules))
               \subseteq EnvironmentalIds(RuleIds(diskBefore.active.json.v.patterns))

\* C10 (witness): automatic curation has added a rule, from a log in which
\* errors of both environmental kinds occur as often as the threshold asks,
\* and the learned pack holds no rule for either kind.
C10_Witness ==
    /\ hook = "--auto"
    /\ exitCode = 0
    /\ AddedByLastRun # {}
    /\ \A prefix \in {s_path_not_found_, s_permission_} :
           \E G \in LoggedSignatures(errorsFile, hashSeed) :
               /\ StartsWith(G, prefix)
               /\ GroupCount(errorsFile, G, hashSeed)
                      >= Threshold(diskBefore.config)
               /\ G \notin LearnedIds(packFiles)

-----------------------------------------------------------------------------
(* Claims about repeated curation, checked under SpecAuto *)

\* Automatic curation has completed, and the step runs it again, as a new
\* process, over the log as it was.
CuratedAgain ==
    /\ hook = "--auto" /\ exitCode = 0
    /\ hook' = "--auto" /\ exitCode' = 0
    /\ errorsFile' = errorsFile

\* The step adds no rule to the learned pack and leaves the rule ids of the
\* learned pack and of the active rule set as they were.
NothingPromoted ==
    /\ RulesOfPack(packFiles', "learned") = RulesOfPack(packFiles, "learned")
    /\ LearnedIds(packFiles') = LearnedIds(packFiles)
    /\ RuleIds(activeFile'.json.v.patterns) = RuleIds(ActiveRules)

\* C11 (as claimed): promotion is idempotent.  Automatic curation run again
\* over an unchanged log, after a run that promoted its qualifying groups,
\* adds no rule to the learned pack and leaves the rule ids of the learned
\* pack and of the active rule set unchanged.
C11_PromotionIdempotent == [][CuratedAgain => NothingPromoted]_vars

\* No event of the log takes the hash fallback of the extractor.
NothingHashed == HashedTexts(errorsFile) = {}

\* C11 holds of every log none of whose events takes the hash fallback.
C11_HoldsWithoutHashing ==
    [][(CuratedAgain /\ NothingHashed) => NothingPromoted]_vars

\* C12 (as claimed): extractor determinism.  The same command and error
\* text yield the same signature in every invocation of the program, the
\* hash fallback included: the signatures two successive curator processes
\* give to the events of one log are the same.
C12_ExtractorDeterministic ==
    [][CuratedAgain =>
          \A i \in ErrorEvents(errorsFile) :
              extract_error_signature(errorsFile[i], hashSeed)
                  = extract_error_signature(errorsFile[i], hashSeed')]_vars

\* C12 holds of every event that does not take the hash fallback.
C12_DeterministicWithoutHashing ==
    [][CuratedAgain =>
          \A i \in ErrorEvents(errorsFile) :
              ~StartsWith(extract_error_signature(errorsFile[i], hashSeed)[2],
                          s_error_)
                  => extract_error_signature(errorsFile[i], hashSeed)
                         = extract_error_signature(errorsFile[i], hashSeed')]_vars

-----------------------------------------------------------------------------
(* More claims about the event log, checked under SpecLog *)

\* The last invocation, of the fix tracker, appended a FixEvent.
FixAppended ==
    /\ hook = "fix-tracker"
    /\ Len(errorsFile) = Len(logBefore) + 1
    /\ IsFixEvent(errorsFile[Len(errorsFile)])

\* C19: a FixEvent is recorded only if all conditions hold.  Whenever an
\* invocation of the fix tracker appends a FixEvent, its linked_error is the
\* id of the most recent ErrorEvent of the log, that error was awaiting its
\* fix, its session and tool are those of the report, and the response text
\* held no failure indicator; when a condition fails the log is left as it
\* was.
C19_FixOnlyWhenAllHold ==
    hook = "fix-tracker" =>
        /\ errorsFile # logBefore =>
               /\ FixAppended
               /\ FixCandidateArrived
               /\ errorsFile[Len(errorsFile)].linked_error
                      = logBefore[MostRecentError(logBefore)].id
        /\ ~FixCandidateArrived => errorsFile = logBefore

\* C19 (witness): a FixEvent was appended for the most recent of two
\* ErrorEvents, the earlier one being of another session.
C19_Witness ==
    /\ FixAppended
    /\ FixCandidateArrived
    /\ Cardinality(ErrorEvents(logBefore)) = 2
    /\ \E i \in ErrorEvents(logBefore) :
           logBefore[i].session_id # request.json.v.session_id

\* The last invocation was the logger on a failure report: one JSON object.
FailureReported ==
    /\ hook = "error-logger"
    /\ request.kind = "json"
    /\ request.json.t = "obj"

\* The log is the log as it was with one ErrorEvent more at its end, which
\* is that of the report, and the invocation ended with exit status 0.
OneEventAppended ==
    LET n == Len(errorsFile)
    IN  /\ n = Len(logBefore) + 1
        /\ SubSeq(errorsFile, 1, n - 1) = logBefore
        /\ IsErrorEvent(errorsFile[n])
        /\ errorsFile[n].session_id = request.json.v.session_id
        /\ errorsFile[n].tool = request.json.v.tool_name
        /\ errorsFile[n].input = request.json.v.tool_input
        /\ exitCode = 0

\* config.json as the logger found it is absent, unparsable or an object.
LoggerConfigReadable ==
    configFile.kind # "json" \/ configFile.json.t = "obj"

\* C16 (as claimed): every failure report produces exactly one appended
\* ErrorEvent at the end of the log, the earlier lines untouched, and the
\* invocation exits 0.
C16_OneEventPerReport == FailureReported => OneEventAppended

\* C16 (amended): as above, for a report handled while config.json is
\* absent, unparsable or a JSON object; in every case the invocation exits
\* 0 and the earlier lines are untouched.
C16_OneEventWhenConfigReadable ==
    /\ (FailureReported /\ LoggerConfigReadable) => OneEventAppended
    /\ hook = "error-logger" =>
           /\ exitCode = 0
           /\ SubSeq(errorsFile, 1, Len(logBefore)) = logBefore

\* C16 (witness): a failure report was appended to a log that held events.
C16_Witness ==
    /\ FailureReported /\ LoggerConfigReadable
    /\ OneEventAppended
    /\ logBefore # <<>>

-----------------------------------------------------------------------------
(* More claims about the packs, checked under SpecPacks *)

\* The pack named on the command line of the last run of the curator
NamedPack == request.arg

\* A rule that the pack holds and no other enabled pack does
TakenFrom(rule, pack_name, cfgFile, packs) ==
    /\ \E i \in 1..Len(RulesOfPack(packs, pack_name)) :
           RulesOfPack(packs, pack_name)[i] = rule
    /\ \A k \in 1..Len(EnabledOrder(cfgFile)) :
           EnabledOrder(cfgFile)[k] # pack_name =>
               \A i \in 1..Len(RulesOfPack(packs, EnabledOrder(cfgFile)[k])) :
                   RulesOfPack(packs, EnabledOrder(cfgFile)[k])[i] # rule

\* After disable-pack every pack file, the event log and the audit log are
\* as they were, and active.json holds no rule taken from the pack named.
DisableLeavesPacksAndExcludes ==
    /\ packFiles = diskBefore.packs
    /\ errorsFile = logBefore
    /\ activeFile.kind = "json" =>
           \A i \in 1..Len(ActiveRules) :
               ~TakenFrom(ActiveRules[i], NamedPack, configFile, packFiles)

\* C17: disabling a pack never deletes or alters that pack's rules.  When
\* disable-pack has completed, every pack file is identical to what it was
\* before, and the active rule set holds no rule taken from the pack that
\* was disabled.
C17_DisableExcludesPack ==
    (hook = "--disable" /\ exitCode = 0) => DisableLeavesPacksAndExcludes

\* config.json was absent or named its enabled packs when disable-pack ran
EnabledPacksWereListed ==
    diskBefore.config.kind = "json" =>
        "enabled_packs" \in DOMAIN diskBefore.config.json.v

\* C17 (as the code behaves): the same, for a run of disable-pack that
\* found config.json absent or naming its enabled packs.
C17_HoldsWhenPacksListed ==
    (hook = "--disable" /\ exitCode = 0 /\ EnabledPacksWereListed)
        => DisableLeavesPacksAndExcludes

\* C17 (the case): disable-pack has removed a pack whose rules were active.
C17_Case ==
    /\ hook = "--disable"
    /\ exitCode = 0
    /\ configFile # diskBefore.config
    /\ activeFile.json.v.patterns # diskBefore.active.json.v.patterns
    /\ RulesOfPack(packFiles, NamedPack) # <<>>

\* active.json without its generated_at
WithoutTimestamp(active) ==
    [key \in DOMAIN active.json.v \ {"generated_at"} |-> active.json.v[key]]

\* Two runs of --merge, one after the other, both completed, over the same
\* configuration and pack files
MergedTwice ==
    /\ hook = "--merge" /\ exitCode = 0
    /\ hook' = "--merge" /\ exitCode' = 0
    /\ configFile' = configFile
    /\ packFiles' = packFiles

\* C18: merge idempotence.  Merging the same enabled-pack list twice with
\* unchanged pack contents yields active rule sets with the same rule ids in
\* the same order and the same per-rule fields: the two active.json differ
\* in generated_at at most.
C18_MergeIdempotent ==
    [][MergedTwice => WithoutTimestamp(activeFile')
                          = WithoutTimestamp(activeFile)]_vars

\* C18 (witness): --merge has completed over the configuration and packs
\* whose merge active.json already was, at a later time: active.json holds
\* the same rules, more than one, and a new generated_at.
C18_Witness ==
    /\ hook = "--merge"
    /\ exitCode = 0
    /\ configFile = diskBefore.config
    /\ packFiles = diskBefore.packs
    /\ diskBefore.active.kind = "json"
    /\ activeFile.json.v.generated_at # diskBefore.active.json.v.generated_at
    /\ WithoutTimestamp(activeFile) = WithoutTimestamp(diskBefore.active)
    /\ Len(ActiveRules) > 1

-----------------------------------------------------------------------------
(* Learning at work: commands fail and are reported, the SessionEnd hook  *)
(* and the operator's add-all and add-one learn rules, and the validator  *)
(* checks the commands submitted next                                     *)

t_rm_rf_build == <<"r", "m", " ", "-", "r", "f", " ", "b", "u", "i", "l", "d">>
t_rmdir_x == <<"r", "m", "d", "i", "r", " ", "x">>
t_tar_zelda == <<"t", "a", "r", " ", "-", "-", "z", "e", "l", "d", "a", " ", "f", "i", "l", "e", ".", "t", "a", "r">>
t_tar_list == <<"t", "a", "r", " ", "-", "-", "l", "i", "s", "t", " ", "f">>
t_tar_invalid_option == <<"t", "a", "r", ":", " ", "i", "n", "v", "a", "l", "i", "d", " ", "o", "p", "t", "i", "o", "n", " ", "-", "-", " ", "'", "z", "e", "l", "d", "a", "'">>
s_cmd_not_found_rm == s_cmd_not_found_ \o t_rm

LearnFailures ==
    {Failure(t_rm_rf_build, t_rm_not_found),
     Failure(t_tar_zelda, t_tar_invalid_option)}

LearnConfigFiles == {Absent, File(Obj([curate_threshold |-> Num(2)]))}

\* A learned pack that is valid JSON and has no patterns key
LearnedWithoutPatterns == File(Obj([pack |-> "learned"]))

LearnCommands == {t_rm_rf_build, t_rmdir_x, t_tar_zelda, t_tar_list}

Submission(command) ==
    File(Obj([tool_name  |-> t_Bash,
              tool_input |-> Obj([command |-> Str(command)])]))

InitLearn ==
    /\ configFile \in LearnConfigFiles
    /\ packFiles \in {[common |-> Absent, learned |-> l, custom |-> Absent] :
                         l \in {Absent, LearnedWithoutPatterns}}
    /\ activeFile = merge_packs(configFile, packFiles, 0)[2]
    /\ allowlistFile = Absent
    /\ legacyFile = Absent
    /\ request = Absent
    /\ exitCode = NotRun
    /\ stderr = NoOutput
    /\ errorsFile = <<>>
    /\ clock = 0
    /\ hook = "none"
    /\ logBefore = <<>>
    /\ curatedLog = <<>>
    /\ hashSeed = <<>>
    /\ tracker = Idle
    /\ diskBefore = Disk(configFile, packFiles, activeFile)

LogLearnFailure == LogErrorFrom(LearnFailures, Ticks)

\* The PreToolUse hook: command-validator.py on a submitted command, one
\* of commands
ValidateAmong(commands) ==
    \E command \in commands :
        \E out \in {ValidatorMain(Submission(command), configFile,
                                  allowlistFile, activeFile, legacyFile)} :
            /\ request' = Submission(command)
            /\ exitCode' = out.code
            /\ stderr' = out.err
            /\ hook' = "command-validator"
            /\ diskBefore' = Disk(configFile, packFiles, activeFile)
            /\ UNCHANGED <<configFile, allowlistFile, activeFile, legacyFile,
                           errorsFile, clock, logBefore, packFiles,
                           curatedLog, hashSeed, tracker>>

ValidateCommand == ValidateAmong(LearnCommands)

NextLearn ==
    \/ LogLearnFailure
    \/ AutoCurate \/ AddAll \/ AddOne
    \/ ValidateCommand

SpecLearn == InitLearn /\ [][NextLearn]_vars

\* Failures of every kind a rule is generated for, learned at the first
\* occurrence and submitted again

MaxSamples == 2

t_rm_x_space == <<"r", "m", " ", "x", " ">>
t_ls_Z == <<"l", "s", " ", "-", "Z">>
t_ls_invalid_option == <<"l", "s", ":", " ", "i", "n", "v", "a", "l", "i", "d", " ", "o", "p", "t", "i", "o", "n", " ", "-", "-", " ", "'", "Z", "'">>
t_a_and_b == <<"a", " ", "&", "&", " ", "b">>
t_echo_hi == <<"e", "c", "h", "o", " ", "h", "i", " ", ">", " ", "f">>

SampleFailures ==
    {Failure(t_rm_x, t_rm_not_found),              \* cmd_not_found_rm
     Failure(t_tar_zelda, t_tar_invalid_option),   \* bad_flag_tar_--
     Failure(t_ls_Z, t_ls_invalid_option),         \* bad_flag_ls_--
     Failure(t_a_and_b, t_boom),                   \* bash_and_chaining
     Failure(t_echo_hi, t_boom),                   \* bash_echo_redirect
     Failure(t_rm_x_space, t_boom)}                \* error_rm_<hash>

SampleCommands ==
    {t_rm_x, t_tar_zelda, t_ls_Z, t_a_and_b, t_echo_hi, t_rm_x_space}

InitSamples ==
    /\ configFile = File(Obj([curate_threshold |-> Num(1)]))
    /\ packFiles = [common |-> Absent, learned |-> Absent, custom |-> Absent]
    /\ activeFile = merge_packs(configFile, packFiles, 0)[2]
    /\ allowlistFile = Absent
    /\ legacyFile = Absent
    /\ request = Absent
    /\ exitCode = NotRun
    /\ stderr = NoOutput
    /\ errorsFile = <<>>
    /\ clock = 0
    /\ hook = "none"
    /\ logBefore = <<>>
    /\ curatedLog = <<>>
    /\ hashSeed = <<>>
    /\ tracker = Idle
    /\ diskBefore = Disk(configFile, packFiles, activeFile)

LogSampleFailure == LogErrorWithin(SampleFailures, LaterTick, MaxSamples)

NextSamples ==
    \/ LogSampleFailure
    \/ AutoCurate \/ AddAll
    \/ ValidateAmong(SampleCommands)

SpecSamples == InitSamples /\ [][NextSamples]_vars

-----------------------------------------------------------------------------
(* Claims about learning, checked under SpecLearn *)

re_tar_zelda == <<"^", "t", "a", "r", "\\", "s", "+", ".", "*", "\\", "-", "\\", "-", "z", "e", "l", "d", "a">>
re_tar_dashes == <<"^", "t", "a", "r", "\\", "s", "+", ".", "*", "\\", "-", "\\", "-">>
t_dash_zelda == <<"-", "-", "z", "e", "l", "d", "a">>
s_bad_flag_tar_dashes == <<"b", "a", "d", "_", "f", "l", "a", "g", "_", "t", "a", "r", "_", "-", "-">>

\* The ErrorEvents of the log for  tar --zelda file.tar  failing with
\* tar: invalid option -- 'zelda'
TarFailures ==
    {i \in ErrorEvents(errorsFile) :
        /\ errorsFile[i].input = Obj([command |-> Str(t_tar_zelda)])
        /\ errorsFile[i].error = t_tar_invalid_option}

\* Extraction followed by generation, for one ErrorEvent: the rule
RuleLearnedFrom(entry) ==
    The({generate_learned_pattern(grouped[2][1].signature, grouped[2][1])[2]
            : grouped \in {analyze_error_patterns(<<entry>>, hashSeed)}})

\* C14: bad-flag learning.  For the failed command  tar --zelda file.tar
\* with error text  tar: invalid option -- 'zelda'  extraction followed by
\* generation yields a regex rule whose pattern is  ^tar\s+.*\-\-zelda  and
\* whose message names the bad flag --zelda.
C14_BadFlagRule ==
    \A i \in TarFailures :
        /\ RuleLearnedFrom(errorsFile[i]).v.match
               = Obj([type |-> "regex", pattern |-> re_tar_zelda])
        /\ Contains(RuleLearnedFrom(errorsFile[i]).v.message, t_dash_zelda)

\* C14 (as the code behaves): the rule learned has the id bad_flag_tar_--
\* and the pattern  ^tar\s+.*\-\-  and its message does not name --zelda;
\* once it is active, the validator blocks  tar --list f.
C14_RuleNamesTwoDashes ==
    /\ \A i \in TarFailures :
           /\ RuleLearnedFrom(errorsFile[i]).v.id = s_bad_flag_tar_dashes
           /\ RuleLearnedFrom(errorsFile[i]).v.match
                  = Obj([type |-> "regex", pattern |-> re_tar_dashes])
           /\ ~Contains(RuleLearnedFrom(errorsFile[i]).v.message,
                        t_dash_zelda)
    /\ (/\ hook = "command-validator"
        /\ request = Submission(t_tar_list)
        /\ s_bad_flag_tar_dashes \in RuleIds(ActiveRules))
           => exitCode = 2

\* C14 (the case): the rule was learned from two such failures and the
\* validator has blocked  tar --list f.
C14_Case ==
    /\ Cardinality(TarFailures) >= 2
    /\ s_bad_flag_tar_dashes \in LearnedIds(packFiles)
    /\ hook = "command-validator"
    /\ request = Submission(t_tar_list)
    /\ exitCode = 2

AutomaticEntryPoints == {"error-logger", "fix-tracker", "--auto"}

\* C15: every automatic entry point is fail-silent.  The error logger, the
\* fix tracker and automatic curation end with exit status 0 for every
\* input and every stored state, a learned pack or configuration that is
\* valid JSON and lacks expected keys included.
C15_FailSilent == hook \in AutomaticEntryPoints => exitCode = 0

\* The learned pack was absent or held a patterns key when the hook ran
LearnedHadPatterns ==
    diskBefore.packs.learned.kind = "json" =>
        "patterns" \in DOMAIN diskBefore.packs.learned.json.v

\* C15 (as the code behaves): the hooks exit 0 when the learned pack is
\* absent or holds its patterns key.
C15_SilentWhenLearnedHasPatterns ==
    (hook \in AutomaticEntryPoints /\ LearnedHadPatterns) => exitCode = 0

\* C15 (the case): automatic curation has completed and added a rule.
C15_Case ==
    /\ hook = "--auto"
    /\ exitCode = 0
    /\ AddedByLastRun # {}

\* The ErrorEvents of the log for  rm -rf build  failing with an error text
\* that contains "command not found"
RmFailures ==
    {i \in ErrorEvents(errorsFile) :
        /\ errorsFile[i].input = Obj([command |-> Str(t_rm_rf_build)])
        /\ Contains(errorsFile[i].error, k_command_not_found)}

\* The last command submitted is an invocation of rm
RmSubmitted ==
    /\ request.kind = "json"
    /\ "tool_input" \in DOMAIN request.json.v
    /\ FirstWord(request.json.v.tool_input.v.command.v) = t_rm

\* Automatic curation with threshold 2 has completed after three such
\* failures were reported: the learned pack holds the rule cmd_not_found_rm.
LearnedAfterThreeFailures ==
    (/\ hook = "--auto"
     /\ exitCode = 0
     /\ Threshold(configFile) = 2
     /\ Cardinality(RmFailures) = 3)
        => s_cmd_not_found_rm \in LearnedIds(packFiles)

\* With that rule in the learned pack, and the learned pack enabled, the
\* validator blocks an invocation of rm.
BlocksRmOnceLearned ==
    (/\ hook = "command-validator"
     /\ RmSubmitted
     /\ s_cmd_not_found_rm \in LearnedIds(packFiles))
        => exitCode = 2

\* C13: end-to-end learning.  When  rm -rf build  was reported as failed
\* three times in one session, each time with an error text containing
\* "command not found", then after automatic curation with threshold 2 the
\* learned pack contains a rule with id cmd_not_found_rm, and the validator
\* blocks the commands submitted next that start with rm.
C13_LearnsAndBlocks == LearnedAfterThreeFailures /\ BlocksRmOnceLearned

\* C13 (as the code behaves): the same, when the three ErrorEvents carry
\* ids that are not all the same.
C13_HoldsWhenIdsDiffer ==
    /\ (\E i, j \in RmFailures : errorsFile[i].id # errorsFile[j].id)
           => LearnedAfterThreeFailures
    /\ BlocksRmOnceLearned

\* C13 (the case): after three failures and the curation, rm -rf build has
\* been submitted again and blocked.
C13_Case ==
    /\ Cardinality(RmFailures) = 3
    /\ s_cmd_not_found_rm \in LearnedIds(packFiles)
    /\ hook = "command-validator"
    /\ request = Submission(t_rm_rf_build)
    /\ exitCode = 2

-----------------------------------------------------------------------------
(* Hooks that overlap: the logger may append to the event log while a fix *)
(* tracker holds the lines it has read and has not yet written them back  *)

RaceFailures ==
    {Failure(t_rm_x, t_rm_not_found), Failure(t_ls, t_ls_no_such_file)}

InitRace ==
    /\ configFile = Absent
    /\ packFiles = [common |-> Absent, learned |-> Absent, custom |-> Absent]
    /\ activeFile = Absent
    /\ allowlistFile = Absent
    /\ legacyFile = Absent
    /\ request = Absent
    /\ exitCode = NotRun
    /\ stderr = NoOutput
    /\ errorsFile = <<>>
    /\ clock = 0
    /\ hook = "none"
    /\ logBefore = <<>>
    /\ curatedLog = <<>>
    /\ hashSeed = <<>>
    /\ diskBefore = Disk(configFile, packFiles, activeFile)
    /\ tracker = Idle

\* The logger hook runs, whether a fix tracker is running or not: one line
\* is appended to the file on disk.
AppendError ==
    \E report \in RaceFailures, dt \in Ticks :
        /\ clock + dt <= MaxTime
        /\ Len(errorsFile) < MaxLog
        /\ errorsFile' = LoggerMain(report, configFile, errorsFile, clock + dt)
        /\ clock' = clock + dt
        /\ request' = report
        /\ exitCode' = 0
        /\ hook' = "error-logger"
        /\ logBefore' = errorsFile
        /\ diskBefore' = Disk(configFile, packFiles, activeFile)
        /\ tracker' = [tracker EXCEPT
                          !.logged = @ + 1,
                          !.overlapped = @ \/ tracker.pc = "read"]
        /\ UNCHANGED <<configFile, allowlistFile, activeFile, legacyFile,
                       stderr, packFiles, curatedLog, hashSeed>>

\* A fix tracker starts and runs up to the end of the reading loop of
\* update_error_awaiting_fix: it has appended its FixEvent to the file and
\* holds the entries it read, the error updated, in memory.  A fix tracker
\* that exits before the append has run as a whole.
TrackerReads ==
    \E report \in CurateFixes, dt \in Ticks :
        \E out \in {FixTrackerMain(report, configFile, errorsFile,
                                   clock + dt)} :
            /\ tracker.pc = "idle"
            /\ clock + dt <= MaxTime
            /\ Len(errorsFile) < MaxLog
            /\ clock' = clock + dt
            /\ request' = report
            /\ exitCode' = IF out = errorsFile THEN 0 ELSE NotRun
            /\ hook' = "fix-tracker"
            /\ logBefore' = errorsFile
            /\ diskBefore' = Disk(configFile, packFiles, activeFile)
            /\ errorsFile' = IF out = errorsFile THEN errorsFile
                             ELSE Append(errorsFile, out[Len(out)])
            /\ tracker' = IF out = errorsFile THEN tracker
                          ELSE [tracker EXCEPT !.pc = "read",
                                               !.entries = out]
            /\ UNCHANGED <<configFile, allowlistFile, activeFile, legacyFile,
                           stderr, packFiles, curatedLog, hashSeed>>

\* The fix tracker rewrites the file with the entries it holds, and exits.
TrackerRewrites ==
    /\ tracker.pc = "read"
    /\ errorsFile' = tracker.entries
    /\ tracker' = [tracker EXCEPT !.pc = "idle", !.entries = <<>>]
    /\ exitCode' = 0
    /\ hook' = "fix-tracker"
    /\ UNCHANGED <<configFile, allowlistFile, activeFile, legacyFile,
                   request, stderr, clock, logBefore, packFiles,
                   curatedLog, hashSeed, diskBefore>>

NextRace == AppendError \/ TrackerReads \/ TrackerRewrites

SpecRace == InitRace /\ [][NextRace]_vars

-----------------------------------------------------------------------------
(* Claims about overlapping hooks, checked under SpecRace *)

\* An ErrorEvent that was appended is absent from the log
ErrorEventLost == Cardinality(ErrorEvents(errorsFile)) < tracker.logged

\* C20: whole-file read-modify-rewrite is not safe under concurrent
\* writers.  An ErrorEvent that was appended is absent from the log only
\* if a failure report was appended between a fix tracker's read of the log
\* and its rewrite; while invocations are strictly sequential every
\* ErrorEvent appended is in the log.
C20_LostOnlyWhenInterleaved ==
    /\ ErrorEventLost => tracker.overlapped
    /\ ~tracker.overlapped =>
           Cardinality(ErrorEvents(errorsFile)) = tracker.logged

\* C20 (witness): a failure report was appended between a fix tracker's
\* read and its rewrite, the fix tracker has rewritten the file, and an
\* ErrorEvent that was appended is absent from the log.
C20_Witness ==
    /\ tracker.pc = "idle"
    /\ tracker.overlapped
    /\ hook = "fix-tracker"
    /\ exitCode = 0
    /\ ErrorEventLost

-----------------------------------------------------------------------------
(* A longer event log: two failures and two fixes, one session and tool,  *)
(* and the SessionEnd hook that pairs them                                *)

MaxLinks == 5

LogLinkedFailure == LogErrorWithin(RaceFailures, Ticks, MaxLinks)

LogLinkedFix == TrackFixWithin(CurateFixes, Ticks, MaxLinks)

NextLinks == LogLinkedFailure \/ LogLinkedFix \/ AutoCurate

SpecLinks == InitRace /\ [][NextLinks]_vars

-----------------------------------------------------------------------------
(* Claims about the ids and links of the event log, checked under SpecLog *)
(* and under SpecLinks                                                    *)

\* C22: ErrorEvent ids are unique.  In every reachable state of the event
\* log no two ErrorEvents carry the same id, for any sequence and timing of
\* failure reports.
C22_ErrorIdsUnique ==
    \A i, j \in ErrorEvents(errorsFile) :
        i # j => errorsFile[i].id # errorsFile[j].id

\* C22 (as the code behaves): two ErrorEvents carry one id exactly when
\* they were logged within one millisecond.
C22_SameIdIffSameMillisecond ==
    \A i, j \in ErrorEvents(errorsFile) :
        (errorsFile[i].id = errorsFile[j].id)
            <=> (errorsFile[i].timestamp = errorsFile[j].timestamp)

\* C22 (the case): two failure reports were logged a millisecond apart.
C22_Case ==
    \E i, j \in ErrorEvents(errorsFile) :
        i # j /\ errorsFile[i].timestamp # errorsFile[j].timestamp

\* The ErrorEvents of a log that await a fix, carry no linked_fix and have
\* a newer ErrorEvent after them
Superseded(log) ==
    {i \in ErrorEvents(log) :
        /\ log[i].awaiting_fix
        /\ "linked_fix" \notin DOMAIN log[i]
        /\ \E j \in ErrorEvents(log) : j > i}

\* Every superseded ErrorEvent is in the next state what it is now
SupersededStay ==
    \A i \in Superseded(errorsFile) :
        i <= Len(errorsFile') /\ errorsFile'[i] = errorsFile[i]

\* C28: an older unresolved error is never paired once superseded.  After
\* a newer ErrorEvent has been appended, every earlier ErrorEvent that
\* still has awaiting_fix true keeps awaiting_fix true and no linked_fix in
\* all later states, whatever fix-candidate reports follow.
C28_SupersededNeverPaired == [][SupersededStay]_vars

\* C28 (as the code behaves): the same for every log whose ErrorEvents
\* carry pairwise different ids.
C28_HoldsWhenIdsUnique == [][UniqueErrorIds => SupersededStay]_vars

\* C28 (the case): a fix was recorded for the last ErrorEvent while an
\* older one, with another id, awaits its fix.
C28_Case ==
    /\ hook = "fix-tracker"
    /\ UniqueErrorIds
    /\ Len(errorsFile) = Len(logBefore) + 1
    /\ Superseded(errorsFile) # {}

\* For each ErrorEvent e with a linked_fix f the log holds, after e, a
\* FixEvent with id f and linked_error e.id, and e awaits no fix; and each
\* FixEvent's linked_error is the id of an ErrorEvent before it whose
\* linked_fix is the id of that FixEvent.
LinksConsistent(log) ==
    /\ \A i \in ErrorEvents(log) :
           "linked_fix" \in DOMAIN log[i] =>
               /\ ~log[i].awaiting_fix
               /\ \E k \in FixEvents(log) :
                      /\ k > i
                      /\ log[k].id = log[i].linked_fix
                      /\ log[k].linked_error = log[i].id
    /\ \A k \in FixEvents(log) :
           \E i \in ErrorEvents(log) :
               /\ i < k
               /\ log[i].id = log[k].linked_error
               /\ "linked_fix" \in DOMAIN log[i]
               /\ log[i].linked_fix = log[k].id

\* C29: link consistency of the log.  After every completed fix-tracker
\* invocation each linked ErrorEvent has its FixEvent after it and awaits
\* no fix, and each FixEvent links back to an ErrorEvent before it that
\* names it as its linked_fix.
C29_LinksConsistent == hook = "fix-tracker" => LinksConsistent(errorsFile)

\* C29 (as the code behaves): the same for every log whose ErrorEvents
\* carry pairwise different ids.
C29_ConsistentWhenIdsUnique ==
    (hook = "fix-tracker" /\ UniqueErrorIds) => LinksConsistent(errorsFile)

\* C29 (the case): the fix tracker has linked a second pair in a log whose
\* ErrorEvents carry different ids.
C29_Case ==
    /\ hook = "fix-tracker"
    /\ UniqueErrorIds
    /\ Len(errorsFile) = Len(logBefore) + 1
    /\ Cardinality(FixEvents(errorsFile)) >= 2

\* The last FixEvent of the log whose linked_error is the id, NoFix when
\* there is none
LastFixLinkedTo(log, error_id) ==
    LET linking == {k \in FixEvents(log) : log[k].linked_error = error_id}
    IN  IF linking = {} THEN NoFix
        ELSE log[CHOOSE k \in linking : \A m \in linking : m <= k]

\* The pairing holds every ErrorEvent of the log, each with the last
\* FixEvent that links to its id; it holds no other entry, and no FixEvent
\* is attached to an error it does not link to.
PairingOf(log, paired) ==
    /\ \A i \in ErrorEvents(log) :
           \E k \in 1..Len(paired) :
               /\ paired[k].error = log[i]
               /\ paired[k].fix = LastFixLinkedTo(log, log[i].id)
    /\ \A k \in 1..Len(paired) :
           /\ paired[k].error.type = "error"
           /\ paired[k].fix # NoFix =>
                  paired[k].fix.linked_error = paired[k].error.id

\* C25: batch pairing.  pair(events) maps the id of every ErrorEvent in
\* the log to that error together with the last FixEvent in log order whose
\* linked_error equals the error's id, or none; FixEvents are never keys,
\* and a FixEvent is attached to no error it does not link to.
C25_BatchPairing ==
    \A paired \in {pair_errors_with_fixes(errorsFile)} :
        PairingOf(errorsFile, paired)

\* C25 (as the code behaves): the same for every log whose ErrorEvents
\* carry pairwise different ids.
C25_PairingWhenIdsUnique ==
    UniqueErrorIds => C25_BatchPairing

\* C25 (the case): the curator has paired a log with two ErrorEvents of
\* different ids, one linked to a FixEvent and one to none.
C25_Case ==
    /\ hook = "--auto"
    /\ UniqueErrorIds
    /\ \E i, j \in ErrorEvents(errorsFile) :
           /\ LastFixLinkedTo(errorsFile, errorsFile[i].id) # NoFix
           /\ LastFixLinkedTo(errorsFile, errorsFile[j].id) = NoFix

-----------------------------------------------------------------------------
(* More claims about signatures and rules, checked under SpecAuto *)

\* The ErrorEvents of the log for a command that begins with rm, with an
\* error text that none of the error-text rules matches
UnixOnlyFailures ==
    {i \in ErrorEvents(errorsFile) :
        /\ FirstWord(errorsFile[i].input.v.command.v) = t_rm
        /\ errorsFile[i].error = t_boom}

\* Extraction followed by generation for one ErrorEvent, in a process whose
\* hash() is h: the group and its rule
LearnedWith(entry, h) ==
    The({[signature |-> grouped[2][1].signature,
          rule      |-> generate_learned_pattern(grouped[2][1].signature,
                                                 grouped[2][1])[2]]
            : grouped \in {analyze_error_patterns(<<entry>>, h)}})

\* C26: structural signatures cover Unix-only command names.  For an
\* ErrorEvent whose error text matches none of the error-text rules and
\* whose command begins with rm, the extractor returns a structural
\* signature and not a hash-fallback signature, and the generator does not
\* build the rule from the exact-command fallback.
C26_StructuralForUnixCommands ==
    \A i \in UnixOnlyFailures, h \in HashSeeds(errorsFile) :
        \A learned \in {LearnedWith(errorsFile[i], h)} :
            /\ ~StartsWith(learned.signature, s_error_)
            /\ learned.rule.v.match.v.type # "exact"

\* C26 (as the code behaves): the signature is the hash fallback
\* error_rm_<hash> and the rule matches the exact command.
C26_HashFallbackForUnixCommands ==
    \A i \in UnixOnlyFailures, h \in HashSeeds(errorsFile) :
        \A learned \in {LearnedWith(errorsFile[i], h)} :
            /\ StartsWith(learned.signature, s_error_ \o t_rm \o <<"_">>)
            /\ learned.rule.v.match
                   = Obj([type    |-> "exact",
                          pattern |-> errorsFile[i].input.v.command.v])

\* C26 (the case): automatic curation has learned an exact-command rule
\* from two such failures.
C26_Case ==
    /\ hook = "--auto"
    /\ Cardinality(UnixOnlyFailures) >= 2
    /\ \E i \in 1..Len(RulesOfPack(packFiles, "learned")) :
           /\ RulesOfPack(packFiles, "learned")[i].v.match.v.type = "exact"
           /\ StartsWith(RulesOfPack(packFiles, "learned")[i].v.id, s_error_)

-----------------------------------------------------------------------------
(* A claim about the confidence of a rule, checked under SpecLinks *)

\* round(100 * fix_count / error_count), halves upwards
RoundedPercent(fix_count, error_count) ==
    (200 * fix_count + error_count) \div (2 * error_count)

\* The rules of the learned pack
LearnedRules == RulesOfPack(packFiles, "learned")

\* C24: the confidence of a generated rule equals
\* round(100 * fix_count / error_count), to the nearest integer, for all
\* counts with 0 <= fix_count <= error_count and error_count > 0, and 0
\* when error_count is 0.
C24_ConfidenceRounded ==
    \A i \in 1..Len(LearnedRules) :
        LearnedRules[i].v.confidence =
            IF LearnedRules[i].v.error_count = 0 THEN 0
            ELSE RoundedPercent(LearnedRules[i].v.fix_count,
                                LearnedRules[i].v.error_count)

\* C24 (as the code behaves): the confidence is the integer part of
\* 100 * fix_count / error_count.
C24_ConfidenceTruncated ==
    \A i \in 1..Len(LearnedRules) :
        /\ LearnedRules[i].v.error_count > 0
        /\ LearnedRules[i].v.fix_count <= LearnedRules[i].v.error_count
        /\ LearnedRules[i].v.confidence =
               (100 * LearnedRules[i].v.fix_count)
                   \div LearnedRules[i].v.error_count

\* C24 (the case): a rule was learned from three errors, two of them fixed.
C24_Case ==
    /\ hook = "--auto"
    /\ \E i \in 1..Len(LearnedRules) :
           /\ LearnedRules[i].v.error_count = 3
           /\ LearnedRules[i].v.fix_count = 2
           /\ LearnedRules[i].v.confidence = 66

-----------------------------------------------------------------------------
(* More claims about curation, checked under SpecCurate *)

LearningOperations == {"--auto", "--add-all", "--add"}

\* C21: rule ids are unique within the learned pack.  Starting from a
\* learned pack with unique ids, after any sequence of automatic curation,
\* add-all and add-one operations the learned pack contains no two rules
\* with the same id.
C21_LearnedIdsUnique ==
    \A i, j \in 1..Len(LearnedRules) :
        LearnedRules[i].v.id = LearnedRules[j].v.id => i = j

\* C21 (witness): a curation has run over a log that holds a group whose
\* signature is already the id of a learned rule, and has left the learned
\* pack with that one rule.
C21_Witness ==
    /\ hook \in LearningOperations
    /\ exitCode = 0
    /\ LearnedIds(diskBefore.packs) # {}
    /\ \E G \in LearnedIds(diskBefore.packs) :
           GroupCount(errorsFile, G, hashSeed) >= 2
    /\ Len(LearnedRules) = Cardinality(LearnedIds(diskBefore.packs))

-----------------------------------------------------------------------------
(* A claim about the learned pack, checked under SpecLearn *)

\* The rules of the learned pack as the last invocation found them
LearnedRulesBefore == RulesOfPack(diskBefore.packs, "learned")

\* C30: curation only appends to the learned pack.  After any automatic,
\* add-all or add-one curation every rule that was in the learned pack
\* before is still there, at the same position, with all fields identical:
\* the counts, confidence, learned_fix and last_seen of an already-learned
\* rule are never refreshed.
C30_CurationOnlyAppends ==
    hook \in LearningOperations =>
        /\ Len(LearnedRulesBefore) <= Len(LearnedRules)
        /\ \A i \in 1..Len(LearnedRulesBefore) :
               LearnedRules[i] = LearnedRulesBefore[i]

\* C30 (witness): a curation has appended a rule after a rule learned
\* before, whose group the log has since gained an error for; that rule
\* still carries its old error_count.
C30_Witness ==
    /\ hook \in LearningOperations
    /\ exitCode = 0
    /\ LearnedRulesBefore # <<>>
    /\ Len(LearnedRules) > Len(LearnedRulesBefore)
    /\ \E i \in 1..Len(LearnedRulesBefore) :
           /\ LearnedRules[i] = LearnedRulesBefore[i]
           /\ GroupCount(errorsFile, LearnedRules[i].v.id, hashSeed)
                  > LearnedRules[i].v.error_count

-----------------------------------------------------------------------------
(* A claim about the review, checked under SpecPacks *)

\* C27: manual review mutates nothing.  An invocation of review mode
\* leaves the event log, every pack file, the active rule set, the
\* allowlist, the configuration and the audit log exactly as they were; and
\* the learned pack changes only through add-all, add-one or automatic
\* curation.
C27_ReviewMutatesNothing ==
    [][/\ hook' = "--review" =>
              UNCHANGED <<errorsFile, packFiles, activeFile, allowlistFile,
                          configFile, curatedLog>>
       /\ packFiles'.learned # packFiles.learned =>
              hook' \in LearningOperations]_vars

\* C27 (witness): the review has run over a log with a group that is not
\* yet learned and could be, and the learned pack is as it was.
C27_Witness ==
    /\ hook = "--review"
    /\ exitCode = 0
    /\ packFiles = diskBefore.packs
    /\ \E G \in LoggedSignatures(errorsFile, hashSeed) :
           /\ G \notin LearnedIds(packFiles)
           /\ StartsWith(G, s_cmd_not_found_)

-----------------------------------------------------------------------------
(* A claim about defective rules, checked under SpecDefects *)

\* The defects the claim names: an empty match pattern, a regex the engine
\* does not compile, a match type that is none of the three.
Defective(rule) ==
    LET match_config == rule.v.match.v
    IN  \/ match_config.pattern = <<>>
        \/ match_config.type \notin {"contains", "exact", "regex"}
        \/ /\ match_config.type = "regex"
           /\ RegexError(match_config.pattern)
                  \/ RepeatTooLarge(match_config.pattern)

DefectAffectsOnlyItself ==
    (hook = "command-validator" /\ StringCommand(request)) =>
        LET rules == PatternsOf(activeFile)
        IN  /\ \A k \in DOMAIN rules :
                   Defective(rules[k]) =>
                       check_pattern(CommandOf(request), rules[k]) = "false"
            /\ \A k, j \in DOMAIN rules :
                   (/\ k < j
                    /\ Defective(rules[k])
                    /\ check_pattern(CommandOf(request), rules[j]) = "true")
                       => exitCode = 2

\* C23: a defective rule affects only itself.  A rule whose match pattern is
\* empty, whose regex is malformed, or whose match type is unknown never
\* matches any command and never raises, and a later rule of the active set
\* that matches the command still blocks it.
C23_DefectAffectsOnlyItself == DefectAffectsOnlyItself

\* C23 (what holds): the same, when every malformed regex among the rules
\* is one the engine rejects with re.error.
C23_HoldsForReError ==
    (\A k \in DOMAIN PatternsOf(activeFile) :
         ~RepeatTooLarge(PatternsOf(activeFile)[k].v.match.v.pattern))
        => DefectAffectsOnlyItself

\* C23 (case): a regex with a repeat count too large stands in front of a
\* rule that matches the command, and the command is allowed.
C23_Case ==
    /\ hook = "command-validator"
    /\ request = File(Obj([tool_input |-> Obj([command |-> Str(t_rm_x)])]))
    /\ PatternsOf(activeFile) = <<rule_huge_repeat, rule_contains_rm>>
    /\ exitCode = 0

\* C23 (case): each of the other three defects stands in front of a rule
\* that matches the command, and the command is blocked.
C23_OtherDefectsCase ==
    /\ hook = "command-validator"
    /\ request = File(Obj([tool_input |-> Obj([command |-> Str(t_rm_x)])]))
    /\ Len(PatternsOf(activeFile)) = 2
    /\ PatternsOf(activeFile)[1]
           \in {rule_empty_pattern, rule_unknown_type, rule_bad_regex}
    /\ PatternsOf(activeFile)[2] = rule_contains_rm
    /\ exitCode = 2

-----------------------------------------------------------------------------
(* A claim about the legacy rule file, checked under SpecValidate *)

\* active.json is absent, unparsable, or an object that holds no rule.
ActiveHoldsNoRule ==
    /\ ~NoObject(activeFile)
    /\ PatternsOf(activeFile) = <<>>

\* Nothing but the rules decides: the command is a non-empty string, the
\* allowlist is read without error and without a match, and the
\* configuration can be read for the message.
RulesDecide ==
    /\ StringCommand(request)
    /\ ~NoObject(allowlistFile)
    /\ \A i \in DOMAIN PatternsOf(allowlistFile) :
           AllowEntryMatches(CommandOf(request),
                             PatternsOf(allowlistFile)[i]) = "false"
    /\ ConfigIsObject

\* The legacy files a run could meet, those of InitValidate and malformed
\* ones.
AnyLegacyFile ==
    LegacyFiles \cup {Invalid, File(List(<<>>)),
                      File(Obj([patterns |-> <<rule_contains_rm>>]))}

\* C34: legacy fallback.  The validator takes its rules from the legacy
\* known-errors file whenever the active rule set file is absent,
\* unparsable or holds zero rules, so a command matching a legacy rule is
\* blocked in those states, with that rule's message; when the active set
\* holds at least one rule the legacy file is never consulted: the outcome
\* is the same whatever the legacy file holds.
C34_LegacyFallback ==
    hook = "command-validator" =>
        /\ (/\ ActiveHoldsNoRule
            /\ RulesDecide
            /\ FirstCovering(CommandOf(request).v, PatternsOf(legacyFile)) # 0)
               => LET rules == PatternsOf(legacyFile)
                      k     == FirstCovering(CommandOf(request).v, rules)
                  IN  /\ exitCode = 2
                      /\ stderr.message = rules[k].v.message
        /\ PatternsOf(activeFile) # <<>> =>
               \A legacy \in AnyLegacyFile :
                   ValidatorMain(request, configFile, allowlistFile,
                                 activeFile, legacy)
                       = [code |-> exitCode, err |-> stderr]

\* C34 (witness): active.json holds an empty rule list, the command matches
\* the legacy rule, and the validator has blocked it.
C34_Witness ==
    /\ hook = "command-validator"
    /\ activeFile = File(Obj([patterns |-> <<>>]))
    /\ legacyFile = File(Obj([patterns |-> <<rule_exact_ls>>]))
    /\ request = File(Obj([tool_input |-> Obj([command |-> Str(t_ls)])]))
    /\ exitCode = 2
    /\ stderr.message = <<"BLOCKED: ls">>

-----------------------------------------------------------------------------
(* Claims about the two mergers and the order of the enabled packs,
   checked under SpecManage *)

RuleListOf(merged) ==
    IF merged[1] = "ok" THEN merged[2].json.v.patterns ELSE <<"raise">>

\* What merge_packs of the curator and merge_packs of the manager write for
\* the files on disk is the same rule list, and the rule list the manager
\* has just written is the one the curator would write.
MergersAgree ==
    /\ RuleListOf(merge_packs(configFile, packFiles, clock))
           = RuleListOf(manager_merge_packs(EnabledOrder(configFile),
                                            packFiles, clock))
    /\ (hook = "manage-packs" /\ exitCode = 0) =>
           activeFile.json.v.patterns
               = RuleListOf(merge_packs(configFile, packFiles, clock))

\* C31: the two merger implementations are equivalent.  For every set of
\* pack files and every enabled-pack order, merge_packs of the curator and
\* merge_packs of the pack manager write the same ordered rule list to the
\* active rule set, also when packs hold rules whose id is missing or empty.
C31_MergersEquivalent == MergersAgree

EveryRuleHasId ==
    \A n \in DOMAIN packFiles :
        \A i \in 1..Len(RulesOfPack(packFiles, n)) :
            Get(RulesOfPack(packFiles, n)[i].v, "id", <<>>) # <<>>

\* C31 (what holds): the two agree when every rule of every pack has an id
\* that is not empty.
C31_EquivalentWhenIdsPresent == EveryRuleHasId => MergersAgree

\* C31 (case): the manager has written a rule without an id, and one with
\* an empty id, that the curator's merge leaves out.
C31_Case ==
    /\ hook = "manage-packs"
    /\ exitCode = 0
    /\ \E i, j \in 1..Len(activeFile.json.v.patterns) :
           /\ activeFile.json.v.patterns[i] = rule_without_id
           /\ activeFile.json.v.patterns[j] = rule_empty_id
    /\ LET curator == RuleListOf(merge_packs(configFile, packFiles, clock))
       IN  \A i \in 1..Len(curator) :
               curator[i] \notin {rule_without_id, rule_empty_id}

\* The ids, other than the empty one, that rules of the list carry
IdsCarried(rules) ==
    {Get(rules[i].v, "id", <<>>) : i \in 1..Len(rules)} \ {<<>>}

\* The first rule of the list that carries the id
FirstWithId(rules, id) ==
    rules[CHOOSE i \in 1..Len(rules) :
              /\ Get(rules[i].v, "id", <<>>) = id
              /\ \A j \in 1..(i - 1) : Get(rules[j].v, "id", <<>>) # id]

EnablingTools == {"--enable", "manage-packs"}

\* A step that enables an available pack which was not enabled puts it
\* last, and active.json holds, for each id the pack shares with the packs
\* enabled before, the rule of those packs.
EnablePutsLast ==
    LET P      == request'.arg
        before == EnabledOrder(configFile)
        others == Concatenation(packFiles', before)
        active == activeFile'.json.v.patterns
    IN  (/\ hook' \in EnablingTools
         /\ exitCode' = 0
         /\ P \in get_available_packs(packFiles)
         /\ \A k \in 1..Len(before) : before[k] # P)
            => /\ EnabledOrder(configFile') = Append(before, P)
               /\ \A id \in IdsCarried(RulesOfPack(packFiles', P))
                                \cap IdsCarried(others) :
                      \E i \in 1..Len(active) :
                          /\ Get(active[i].v, "id", <<>>) = id
                          /\ active[i] = FirstWithId(others, id)

\* C32: enabling puts a pack last.  Enabling a pack that is not enabled
\* appends it at the end of enabled_packs and keeps the relative order of
\* the packs already enabled, so the pack has the lowest merge priority:
\* for any rule id present both in it and in another enabled pack the
\* active rule set holds the other pack's rule.
C32_EnablingPutsLast == [][EnablePutsLast]_vars

PacksListed(cfgFile) ==
    cfgFile.kind = "json" => "enabled_packs" \in DOMAIN cfgFile.json.v

\* C32 (what holds): the same, when config.json is absent or names its
\* enabled packs.
C32_HoldsWhenPacksListed == [][PacksListed(configFile) => EnablePutsLast]_vars

\* C32 (case): config.json named no enabled packs, so that the three
\* default packs were merged; a fourth pack has been enabled, and it is the
\* only pack enabled now.
C32_Case ==
    /\ hook \in EnablingTools
    /\ exitCode = 0
    /\ request.arg = "extra"
    /\ ~PacksListed(diskBefore.config)
    /\ EnabledOrder(configFile) = <<"extra">>

\* C32 (case): a pack that was disabled has been enabled again behind a
\* pack that shares a rule id with it, and active.json holds that pack's
\* rule.
C32_ReenabledCase ==
    /\ hook \in EnablingTools
    /\ exitCode = 0
    /\ request.arg = "custom"
    /\ EnabledOrder(diskBefore.config) = <<"common">>
    /\ EnabledOrder(configFile) = <<"common", "custom">>
    /\ activeFile.json.v.patterns[1] = rule_contains_rm
    /\ packFiles.custom = CustomPack

-----------------------------------------------------------------------------
(* A claim about what a learned rule matches, checked under SpecSamples *)

\* The first ErrorEvent of the log whose signature is G, in the process
\* that curated last
FirstOfGroup(G) ==
    CHOOSE i \in ErrorEvents(errorsFile) :
        /\ extract_error_signature(errorsFile[i], hashSeed)[2] = G
        /\ \A j \in ErrorEvents(errorsFile) :
               extract_error_signature(errorsFile[j], hashSeed)[2] = G
                   => i <= j

\* The rule just learned matches, as the validator matches, the command of
\* the first ErrorEvent of its group.
MatchesOwnCommand(rule) ==
    check_pattern(errorsFile[FirstOfGroup(rule.v.id)].input.v.command, rule)
        = "true"

AddingOperations == {"--auto", "--add-all"}

\* C33: a learned rule blocks the command it was learned from.  For every
\* signature group for which the generator returns a rule (bad flag,
\* command not found, structural template, exact-command fallback) the
\* rule matches, under the validator's match semantics, the first failing
\* command of the group exactly as it was logged.
C33_LearnedRuleMatchesItsCommand ==
    hook \in AddingOperations =>
        \A i \in 1..Len(LearnedRules) :
            LearnedRules[i].v.id \in AddedByLastRun =>
                MatchesOwnCommand(LearnedRules[i])

\* The command is logged without white space around it and, in a bad-flag
\* group, holds the flag the signature names.
PlainSample(rule) ==
    LET command == errorsFile[FirstOfGroup(rule.v.id)].input.v.command.v
    IN  /\ Strip(command) = command
        /\ StartsWith(rule.v.id, s_bad_flag_) =>
               Contains(command,
                        SplitOnce(SubSeq(rule.v.id, Len(s_bad_flag_) + 1,
                                         Len(rule.v.id)), "_")[2])

\* C33 (what holds): the rule matches its command when the command is
\* logged without white space around it and holds the flag the signature
\* names.
C33_MatchesPlainCommands ==
    hook \in AddingOperations =>
        \A i \in 1..Len(LearnedRules) :
            (/\ LearnedRules[i].v.id \in AddedByLastRun
             /\ PlainSample(LearnedRules[i]))
                => MatchesOwnCommand(LearnedRules[i])

\* C33 (case): the command  rm x  followed by a space failed and a rule was
\* learned from it, an exact match on  rm x ; the command is submitted
\* again as it was logged and is allowed.
C33_Case ==
    /\ hook = "command-validator"
    /\ request = Submission(t_rm_x_space)
    /\ exitCode = 0
    /\ Len(errorsFile) = 1
    /\ errorsFile[1].input.v.command.v = t_rm_x_space
    /\ Len(ActiveRules) = 1
    /\ ActiveRules[1].v.match = Obj([type |-> "exact", pattern |-> t_rm_x])

\* C33 (case): the rules learned from a command that is not found, from a
\* chained command and from a redirected echo block their commands.
C33_BlockedCase ==
    /\ hook = "command-validator"
    /\ exitCode = 2
    /\ request \in {Submission(t_rm_x), Submission(t_a_and_b),
                    Submission(t_echo_hi)}
    /\ Len(errorsFile) = 1
    /\ errorsFile[1].input.v.command = request.json.v.tool_input.v.command

====
